---- MODULE Spec2Model ----
(***************************************************************************)
(* The asynchronous AI-reply pipeline of the Gemini chatroom backend:      *)
(* the message write path (MessageService.createMessage and the usage      *)
(* ledger of SubscriptionService), job submission (QueueService), the      *)
(* BullMQ retry policy configured in QueueConfig, and the reply worker     *)
(* (GeminiWorker).                                                         *)
(*                                                                         *)
(* Three specifications share the variables:                               *)
(*   Spec       the routes (each handler atomically) and the worker, one   *)
(*              action per await of processGeminiJob;                      *)
(*   SpecSend   concurrent send requests, one action per store call of     *)
(*              createMessage / trackMessageUsage;                         *)
(*   SpecWindow the message table and getConversationHistory alone, with   *)
(*              tables long enough for the window to cut.                  *)
(***************************************************************************)
EXTENDS Integers, Sequences, FiniteSets, TLC

(* ------------------------------ bounds -------------------------------- *)
\* job slots of the reply queue
MaxJobs == 2
\* user messages sent through the routes in one behaviour (Spec)
MaxSends == 2
\* how far below the tier limit the initial daily count may start
MaxHeadroom == 1
\* rows of the message table in SpecWindow
MaxMsgs == 12
\* concurrent send requests in SpecSend
MaxReqs == 2
\* store, queue-store and generation-service failures in one behaviour
MaxFaults == 3
\* SpecRetention: the jobs that finish, and how many of them complete
MaxQueueJobs == 52
MaxCompleted == 1
\* jobs waiting in the queue of SpecPool: one more than the Worker has slots
MaxPoolJobs == 11
\* attempts that throw in SpecPool
MaxPoolFaults == 1
\* the longest generated text of SpecFormat, in characters
MaxTextLen == 5

(* ------------------------- program constants -------------------------- *)
basicTierDailyLimit == 5
proTierDailyLimit == 1000
\* defaultJobOptions.attempts
attempts == 3
\* defaultJobOptions.backoff.delay (ms)
backoffDelay == 2000
\* defaultJobOptions.removeOnComplete, removeOnFail
removeOnComplete == 100
removeOnFail == 50
\* the limit cleanQueue passes to queue.clean
cleanLimit == 100
\* Worker option concurrency
concurrency == 10
\* findMany({ take: 10 }) of getConversationHistory
historyTake == 10
\* JOB_PRIORITIES.HIGH, MEDIUM, LOW
PriorityHigh == 1
PriorityMedium == 5
PriorityLow == 10

Users == {"u1"}
\* the chatrooms that exist; c1 belongs to u1
Chatrooms == {"c1"}
chatroomOwner == [c \in Chatrooms |-> "u1"]
\* the chatroom ids of the rows in SpecWindow
WindowRooms == {"c1", "c2"}
Tiers == {"basic", "pro"}
\* the statuses the billing webhook delivers in Spec
WebhookStatuses == {"active", "canceled"}
None == "none"

\* the two CacheService classes of the repository, by the file that holds them
CacheServices == {"part_011", "gemini.service"}
\* the class the worker's behaviours are explored with; the worker calls
\* invalidateMessageCache only, and neither class lets an error out of it
WorkerCacheService == "part_011"
\* the users and chatrooms that have entries in the cache; c1 belongs to u1
CacheUsers == {"u1", "u2"}
CacheRooms == {"c1", "c2"}
\* the pages and the search queries under which read-views are cached
Pages == {"1", "2"}
PageLimit == "20"
Queries == {"hi", "a b"}

JobIds == 1..MaxJobs
ReqIds == 1..MaxReqs

VARIABLES
  subscriptionStatus,  \* user.subscriptionStatus
  subscriptionTier,    \* user.subscriptionTier
  dailyMessageCount,   \* user.dailyMessageCount
  dailyUsage,          \* today's DailyUsage row of the user: -1 = no row, else messageCount
  messages,            \* the message table, in insertion (createdAt) order
  jobs,                \* the gemini-processing queue: job id -> job
  reqs,                \* SpecSend: the send requests in flight
  faults,              \* failures of the stores and of the generation service so far
  usageAtStart,        \* today's count of the user when the behaviour starts
  window,              \* SpecWindow: the last getConversationHistory call and its result
  chatrooms,           \* the chatroom table: id -> [exists, updatedAt]
  cache,               \* the keys the cache holds
  cacheService         \* which CacheService class the build links as cache.service

vars == <<subscriptionStatus, subscriptionTier, dailyMessageCount, dailyUsage,
          messages, jobs, reqs, faults, usageAtStart, window,
          chatrooms, cache, cacheService>>

userVars == <<subscriptionStatus, subscriptionTier, dailyMessageCount, dailyUsage,
              usageAtStart>>

(* ------------------------------ helpers ------------------------------- *)
RECURSIVE Pow2(_)
Pow2(n) == IF n <= 0 THEN 1 ELSE 2 * Pow2(n - 1)

RECURSIVE SelectIdx(_, _, _)
\* the indices i >= from of s whose element satisfies the chatroom filter
SelectIdx(s, room, from) ==
  IF from > Len(s) THEN <<>>
  ELSE IF s[from].chatroomId = room
       THEN <<from>> \o SelectIdx(s, room, from + 1)
       ELSE SelectIdx(s, room, from + 1)

Reverse(s) == [i \in 1..Len(s) |-> s[Len(s) + 1 - i]]

Take(s, n) == SubSeq(s, 1, IF Len(s) < n THEN Len(s) ELSE n)


(* --------------------------- the message table ------------------------ *)
\* db.message.create: the row gets the next createdAt; `job` is 0 for a row
\* written by createMessage and the job id for a row written by the worker
NewMessage(table, room, who, j) ==
  [id |-> Len(table) + 1, chatroomId |-> room, sender |-> who,
   createdAt |-> Len(table) + 1, job |-> j]

\* findMany({ where: { chatroomId }, orderBy: { createdAt: 'asc' } }): the table is
\* kept in createdAt order, so ascending order is table order
FindManyAsc(table, room) ==
  LET idx == SelectIdx(table, room, 1) IN [i \in 1..Len(idx) |-> table[idx[i]]]

\* findMany({ where: { chatroomId }, orderBy: { createdAt: 'desc' } })
FindManyDesc(table, room) == Reverse(FindManyAsc(table, room))

\* a plausible slip: newest first, never reversed
HistoryRowsNewestFirst(table, room) == Take(FindManyDesc(table, room), historyTake)

\* the rows getConversationHistory reads: orderBy createdAt asc, take 10
HistoryRows(table, room) == Take(FindManyAsc(table, room), historyTake)

\* MessageService.getMessageHistory: desc, take limit, then reverse
MessageHistoryRows(table, room, limit) ==
  LET lim == IF limit < 1 THEN 10 ELSE IF limit > 50 THEN 50 ELSE limit
  IN  Reverse(Take(FindManyDesc(table, room), lim))

\* sender 'user' -> role 'user', anything else -> role 'model'
ToGeminiMessages(rows) ==
  [i \in 1..Len(rows) |->
     [role |-> IF rows[i].sender = "user" THEN "user" ELSE "model",
      msg |-> rows[i].id, createdAt |-> rows[i].createdAt]]

\* GeminiWorker.getConversationHistory when the store answers
ConversationHistory(table, room) ==
  IF room = None THEN <<>> ELSE ToGeminiMessages(HistoryRows(table, room))

AiMessagesOf(j) == {i \in 1..Len(messages) : messages[i].job = j}

(* ----------------------------- usage ledger --------------------------- *)
\* SubscriptionService.getSubscriptionLimits(tier).dailyMessageLimit
DailyLimit(tier) == IF tier = "pro" THEN proTierDailyLimit ELSE basicTierDailyLimit

\* a boundary test written with > where the code has >=
CanSendMessageOverLimit(status, tier, count) ==
  IF status # "active" THEN [canSend |-> FALSE, reason |-> "Inactive subscription"]
  ELSE IF count > DailyLimit(tier)
       THEN [canSend |-> FALSE, reason |-> "Daily message limit exceeded"]
       ELSE [canSend |-> TRUE, reason |-> None]

\* a status test that knows only the canceled status
CanSendMessageCanceledOnly(status, tier, count) ==
  IF status = "canceled" THEN [canSend |-> FALSE, reason |-> "Inactive subscription"]
  ELSE IF count >= DailyLimit(tier)
       THEN [canSend |-> FALSE, reason |-> "Daily message limit exceeded"]
       ELSE [canSend |-> TRUE, reason |-> None]

\* SubscriptionService.canSendMessage on the user row it read
CanSendMessage(status, tier, count) ==
  IF status # "active" THEN [canSend |-> FALSE, reason |-> "Inactive subscription"]
  ELSE IF count >= DailyLimit(tier)
       THEN [canSend |-> FALSE, reason |-> "Daily message limit exceeded"]
       ELSE [canSend |-> TRUE, reason |-> None]

\* the user's entitlement as the store holds it now
Allowed(u) ==
  CanSendMessage(subscriptionStatus[u], subscriptionTier[u], dailyMessageCount[u]).canSend

(* ------------------------------ the cache ----------------------------- *)
\* a cached read-view: the chatroom list, search and stats views belong to a
\* user (id is the user id), the detail and messageStats views to a chatroom
UserViews ==
  [kind : {"list"}, id : CacheUsers, query : {None}, page : Pages]
    \cup [kind : {"search"}, id : CacheUsers, query : Queries, page : Pages]
    \cup [kind : {"stats"}, id : CacheUsers, query : {None}, page : {None}]

ChatroomViews ==
  [kind : {"detail"}, id : CacheRooms, query : {None}, page : Pages]
    \cup [kind : {"messageStats"}, id : CacheRooms, query : {None}, page : {None}]

Views == UserViews \cup ChatroomViews

\* query.replace(/[^a-zA-Z0-9]/g, '_') on the queries of Queries
SanitizedQuery(q) == IF q = "a b" THEN "a_b" ELSE q

\* a key is the sequence of its ':'-separated segments.
\* part_011: getUserChatroomsKey, getChatroomDetailKey, getChatroomSearchKey,
\* getChatroomStatsKey, getMessageStatsKey
PrefixKey(v) ==
  CASE v.kind = "list" -> <<"user", "chatrooms", v.id, v.page, PageLimit>>
    [] v.kind = "detail" -> <<"chatroom", "detail", v.id, v.page, PageLimit>>
    [] v.kind = "search" ->
         <<"chatroom", "search", v.id, SanitizedQuery(v.query), v.page, PageLimit>>
    [] v.kind = "stats" -> <<"chatroom", "stats", v.id>>
    [] v.kind = "messageStats" -> <<"message", "stats", v.id>>

\* gemini.service.ts: the keys of the get/setCached... methods, owner id first
OwnerKey(v) ==
  CASE v.kind = "list" -> <<"user", v.id, "chatrooms", v.page, PageLimit>>
    [] v.kind = "detail" -> <<"chatroom", v.id, "detail", v.page, PageLimit>>
    [] v.kind = "search" -> <<"user", v.id, "search", v.query, v.page, PageLimit>>
    [] v.kind = "stats" -> <<"user", v.id, "stats">>
    [] v.kind = "messageStats" -> <<"message", v.id, "stats">>

\* the key the linked CacheService stores view v under
CacheKey(service, v) == IF service = "part_011" THEN PrefixKey(v) ELSE OwnerKey(v)

\* every key a setCached... call can have stored
AllKeys(service) == {CacheKey(service, v) : v \in Views}

\* redis KEYS pattern: the patterns of the code are literal, or literal up to a
\* final '*' that follows a ':'
GlobMatch(pattern, key) ==
  IF pattern[Len(pattern)] = "*"
  THEN /\ Len(key) >= Len(pattern)
       /\ \A i \in 1..(Len(pattern) - 1) : key[i] = pattern[i]
  ELSE key = pattern

\* part_011: the deleteByPattern calls of invalidateUserCache
InvalidateUserByPrefix(u) ==
  << <<"user", "chatrooms", u, "*">>, <<"chatroom", "search", u, "*">>,
     <<"chatroom", "stats", u>> >>

\* part_011: the deleteByPattern calls of invalidateChatroomCache
InvalidateChatroomByPrefix(c, u) ==
  << <<"chatroom", "detail", c, "*">>, <<"message", "stats", c>> >>
    \o InvalidateUserByPrefix(u)

\* part_011: the deleteByPattern calls of invalidateMessageCache
InvalidateMessageByPrefix(c, u) ==
  << <<"chatroom", "detail", c, "*">>, <<"message", "stats", c>>,
     <<"user", "chatrooms", u, "*">>, <<"chatroom", "stats", u>> >>

\* gemini.service.ts: the clearPattern call of invalidateUserCache
InvalidateUserByOwner(u) == << <<"user", u, "*">> >>

\* gemini.service.ts: the clearPattern calls of invalidateChatroomCache
InvalidateChatroomByOwner(c, u) ==
  << <<"chatroom", c, "*">>, <<"user", u, "chatrooms", "*">> >>

\* gemini.service.ts: the clearPattern calls of invalidateMessageCache
InvalidateMessageByOwner(c, u) ==
  << <<"message", c, "*">>, <<"chatroom", c, "messages", "*">> >>

CacheOps == {"invalidateChatroomCache", "invalidateMessageCache", "invalidateUserCache"}

\* the patterns CacheService.<op>(c, u) deletes by, in the order of the code
PatternsOf(service, op, c, u) ==
  IF service = "part_011"
  THEN CASE op = "invalidateChatroomCache" -> InvalidateChatroomByPrefix(c, u)
         [] op = "invalidateMessageCache" -> InvalidateMessageByPrefix(c, u)
         [] op = "invalidateUserCache" -> InvalidateUserByPrefix(u)
  ELSE CASE op = "invalidateChatroomCache" -> InvalidateChatroomByOwner(c, u)
         [] op = "invalidateMessageCache" -> InvalidateMessageByOwner(c, u)
         [] op = "invalidateUserCache" -> InvalidateUserByOwner(u)

\* redis.keys(pattern) on the keys held
KeysMatching(held, pattern) == {k \in held : GlobMatch(pattern, k)}

\* the keys left when every pattern of ps was read and deleted without an error
AfterPatterns(held, ps) ==
  {k \in held : \A i \in 1..Len(ps) : ~GlobMatch(ps[i], k)}

\* CacheService.invalidateMessageCache(c, u) with no redis error
InvalidateMessageCache(held, service, c, u) ==
  AfterPatterns(held, PatternsOf(service, "invalidateMessageCache", c, u))

(* ------------------------------ the queue ----------------------------- *)
\* state: BullMQ's job state; pc: the await processGeminiJob is suspended at;
\* attemptsMade, delay, priority: BullMQ's job fields; onlyTransient: every failed attempt so far failed
\* with a transient error of the generation service; history, content, savedId:
\* the locals of the running attempt; invals: the cache invalidation calls made
NoJob ==
  [state |-> "none", pc |-> "idle", attemptsMade |-> 0,
   onlyTransient |-> TRUE, delay |-> 0, priority |-> 0,
   messageId |-> 0, chatRoomId |-> None, userId |-> None, ctxRoom |-> None,
   route |-> None, history |-> <<>>, histFailed |-> FALSE, content |-> 0,
   savedId |-> 0, invals |-> <<>>]

UsedJobs == {j \in JobIds : jobs[j].state # "none"}

FreeSlot == Cardinality(UsedJobs) < MaxJobs

NextJobId == Cardinality(UsedJobs) + 1

ActiveJobs == {j \in JobIds : jobs[j].state = "active"}

\* JobsOptions values are functions from the option names given to their values
NoOptions == [k \in {} |-> 0]

Has(options, k) == k \in DOMAIN options

\* a spread written the other way round: the defaults overwrite the caller's
JobOptionsDefaultsLast(options) ==
  [priority |-> PriorityHigh, delay |-> 0]

\* jobOptions = { priority: JOB_PRIORITIES.HIGH, delay: 0, ...options }
JobOptions(options) ==
  [priority |-> IF Has(options, "priority") THEN options.priority ELSE PriorityHigh,
   delay |-> IF Has(options, "delay") THEN options.delay ELSE 0]

\* QueueService.enqueueGeminiMessage(data, options): queue.add(name, data, jobOptions);
\* a job added with a delay waits in the delayed set first
EnqueueGeminiMessageWith(msgId, room, u, ctx, via, options) ==
  LET jobOptions == JobOptions(options) IN
  [NoJob EXCEPT !.state = IF jobOptions.delay > 0 THEN "delayed" ELSE "waiting",
                !.priority = jobOptions.priority, !.delay = jobOptions.delay,
                !.messageId = msgId, !.chatRoomId = room, !.userId = u,
                !.ctxRoom = ctx, !.route = via]

\* QueueService.enqueueGeminiMessage(data) with no options, as every caller in
\* the repository calls it: priority HIGH, delay 0
EnqueueGeminiMessage(msgId, room, u, ctx, via) ==
  EnqueueGeminiMessageWith(msgId, room, u, ctx, via, NoOptions)

\* the attempt-local values are dropped when the processor throws
Thrown(job, kind) ==
  [job EXCEPT !.attemptsMade = @ + 1,
              !.onlyTransient = @ /\ kind = "transient",
              !.pc = "idle", !.history = <<>>, !.histFailed = FALSE,
              !.content = 0, !.savedId = 0]

\* a retry policy that gives up after the first failure
RetryNever(job, kind) == [Thrown(job, kind) EXCEPT !.state = "failed"]

\* BullMQ's handling of a processor that threw, under defaultJobOptions:
\* attempts 3, exponential backoff from 2000 ms. The worker throws a plain
\* Error for every failure, so the kind of failure never changes the policy.
RetryOrFail(job, kind) ==
  LET t == Thrown(job, kind) IN
  IF t.attemptsMade < attempts
  THEN [t EXCEPT !.state = "delayed",
                 !.delay = Pow2(t.attemptsMade - 1) * backoffDelay]
  ELSE [t EXCEPT !.state = "failed"]

\* savedMessage.id of the mock saveGeminiResponse returns from its catch block
FailedSave == -1

\* the text the generation service returns to job j in its current attempt
ReplyOf(j, job) == 10 * j + job.attemptsMade + 1

(* ------------------------------- Init --------------------------------- *)
\* canSendMessage has not returned yet
NoDecision == [canSend |-> FALSE, reason |-> None]

\* a send request: pc is the await it is suspended at, decision what
\* canSendMessage returned to it, msgId the row its message.create wrote,
\* usageRead the messageCount of the row trackMessageUsage's findUnique returned
\* (-1: null), written the messageCount of the row its create or update
\* returned, jobId the reply job the controller enqueued for it, route the
\* controller that handled it and response what it answered
NoResponse == [status |-> 0, message |-> None, warning |-> None]

NoReq == [pc |-> "idle", userId |-> None, chatroomId |-> None, usageRead |-> -1,
          written |-> -1, decision |-> NoDecision, msgId |-> 0, jobId |-> 0,
          route |-> None, response |-> NoResponse]

NoWindow == [room |-> None, at |-> 0, history |-> <<>>]

\* every chatroom of Chatrooms exists and has not been written to
InitChatrooms == [c \in Chatrooms |-> [exists |-> TRUE, updatedAt |-> 0]]

\* db.chatroom.update({ where: { id }, data: { updatedAt: new Date() } })
TouchChatroom(table, c, at) == [table EXCEPT ![c].updatedAt = at]

Init ==
  /\ subscriptionStatus = [u \in Users |-> "active"]
  /\ subscriptionTier = [u \in Users |-> "basic"]
  /\ \E h \in 1..MaxHeadroom :
        dailyMessageCount = [u \in Users |-> DailyLimit(subscriptionTier[u]) - h]
  /\ dailyUsage = dailyMessageCount
  /\ messages = <<>>
  /\ jobs = [j \in JobIds |-> NoJob]
  /\ reqs = [r \in ReqIds |-> NoReq]
  /\ faults = 0
  /\ usageAtStart = dailyMessageCount
  /\ window = NoWindow
  /\ chatrooms = InitChatrooms
  /\ cacheService = WorkerCacheService
  /\ cache = AllKeys(cacheService)

(* ------------------- the routes, each handler atomically -------------- *)
\* SubscriptionService.trackMessageUsage run without interleaving
TrackedUsage(u) == IF dailyUsage[u] = -1 THEN 1 ELSE dailyUsage[u] + 1

UserMessages == {i \in 1..Len(messages) : messages[i].sender = "user"}

\* MessageService.createMessage(chatroomId, userId, {sender: 'user'}) run to its end:
\* ownership check, canSendMessage, message.create, chatroom.update,
\* trackMessageUsage, invalidateMessageCache
CreateUserMessage(u, c) ==
  /\ Cardinality(UserMessages) < MaxSends
  /\ chatrooms[c].exists
  /\ chatroomOwner[c] = u
  /\ Allowed(u)
  /\ messages' = Append(messages, NewMessage(messages, c, "user", 0))
  /\ chatrooms' = TouchChatroom(chatrooms, c, Len(messages) + 1)
  /\ dailyUsage' = [dailyUsage EXCEPT ![u] = TrackedUsage(u)]
  /\ dailyMessageCount' = [dailyMessageCount EXCEPT ![u] = TrackedUsage(u)]
  /\ cache' = InvalidateMessageCache(cache, cacheService, c, u)
  /\ UNCHANGED <<subscriptionStatus, subscriptionTier, usageAtStart, reqs, faults, window,
                 cacheService>>

\* MessageController.sendMessage: createMessage, then, when processWithGemini is
\* set, enqueue with context {messageType, timestamp} (no chatRoomId in it);
\* a queue error is caught and the stored message is still reported
SendMessage(u, c) ==
  /\ CreateUserMessage(u, c)
  /\ \E processWithGemini \in BOOLEAN, queueUp \in BOOLEAN :
       IF processWithGemini /\ queueUp /\ FreeSlot
       THEN jobs' = [jobs EXCEPT ![NextJobId] =
                       EnqueueGeminiMessage(Len(messages) + 1, c, u, None, "sendMessage")]
       ELSE UNCHANGED jobs

\* ChatroomController.sendMessageToChatroom: createMessage, then always enqueue,
\* with context {messageType, timestamp, chatRoomId, userId}
SendMessageToChatroom(u, c) ==
  /\ CreateUserMessage(u, c)
  /\ \E queueUp \in BOOLEAN :
       IF queueUp /\ FreeSlot
       THEN jobs' = [jobs EXCEPT ![NextJobId] =
                       EnqueueGeminiMessage(Len(messages) + 1, c, u, c, "sendMessageToChatroom")]
       ELSE UNCHANGED jobs

\* QueueController.enqueueTestMessage: no message is written and nothing is
\* checked; chatRoomId and context come from the request body
EnqueueTestMessage(u, c, ctx) ==
  /\ FreeSlot
  /\ jobs' = [jobs EXCEPT ![NextJobId] = EnqueueGeminiMessage(0, c, u, ctx, "test")]
  /\ UNCHANGED <<userVars, messages, reqs, faults, window, chatrooms, cache, cacheService>>

\* SubscriptionService.updateSubscriptionFromWebhook
UpdateSubscriptionFromWebhook(u, status) ==
  /\ subscriptionStatus' = [subscriptionStatus EXCEPT ![u] = status]
  /\ UNCHANGED <<subscriptionTier, dailyMessageCount, dailyUsage, usageAtStart,
                 messages, jobs, reqs, faults, window, chatrooms, cache, cacheService>>

(* ------------------------------ the worker ---------------------------- *)
workerFrame == <<userVars, reqs, window, cacheService>>

\* a call to a store or to the generation service answers (ok) or fails
Answers(ok) ==
  /\ ok \/ faults < MaxFaults
  /\ faults' = IF ok THEN faults ELSE faults + 1

\* the Worker takes a waiting job while fewer than `concurrency` are active and
\* calls processGeminiJob, which first awaits job.updateProgress(10); a progress
\* update is a call to the queue's store and can throw
StartJob(j) ==
  /\ jobs[j].state = "waiting"
  /\ Cardinality(ActiveJobs) < concurrency
  /\ \E ok \in BOOLEAN :
       LET job == [jobs[j] EXCEPT !.state = "active"] IN
       /\ Answers(ok)
       /\ jobs' = [jobs EXCEPT ![j] = IF ok THEN [job EXCEPT !.pc = "history"]
                                      ELSE RetryOrFail(job, "progress")]
  /\ UNCHANGED <<messages, chatrooms, cache, workerFrame>>

\* the backoff delay of a delayed job has elapsed
PromoteDelayed(j) ==
  /\ jobs[j].state = "delayed"
  /\ jobs' = [jobs EXCEPT ![j] = [@ EXCEPT !.state = "waiting", !.delay = 0]]
  /\ UNCHANGED <<messages, chatrooms, cache, faults, workerFrame>>

\* callGeminiAPI, first await: getConversationHistory(context?.chatRoomId).
\* No chatRoomId in the context: []. A store error is caught, logged, and [] returned.
GetConversationHistory(job, table, ok) ==
  IF job.ctxRoom = None THEN [job EXCEPT !.history = <<>>, !.pc = "generate"]
  ELSE IF ok THEN [job EXCEPT !.history = ConversationHistory(table, job.ctxRoom),
                              !.pc = "generate"]
  ELSE [job EXCEPT !.history = <<>>, !.histFailed = TRUE, !.pc = "generate"]

FetchHistory(j) ==
  /\ jobs[j].state = "active"
  /\ jobs[j].pc = "history"
  /\ \E ok \in BOOLEAN :
       /\ Answers(ok \/ jobs[j].ctxRoom = None)
       /\ jobs' = [jobs EXCEPT ![j] = GetConversationHistory(jobs[j], messages, ok)]
  /\ UNCHANGED <<messages, chatrooms, cache, workerFrame>>

\* what the generation service answers, and whether the progress updates that
\* follow a successful answer (60, then 80) go through
GenerationOutcomes == {"ok", "progress", "transient", "rejected", "quota"}

\* callGeminiAPI, second await: geminiService.generateResponse(userMessage, context).
\* Every failure of the service is rethrown as Error('Failed to call Gemini API')
\* and reaches the queue as a failed attempt. After an answer: updateProgress(60),
\* processGeminiResponse (synchronous), updateProgress(80).
GenerateOutcome(j, outcome) ==
  /\ jobs[j].state = "active"
  /\ jobs[j].pc = "generate"
  /\ Answers(outcome = "ok")
  /\ LET job == jobs[j] IN
     jobs' = [jobs EXCEPT ![j] =
                IF outcome = "ok"
                THEN [job EXCEPT !.content = ReplyOf(j, job), !.pc = "save",
                                 !.history = <<>>, !.histFailed = FALSE]
                ELSE RetryOrFail(job, outcome)]
  /\ UNCHANGED <<messages, chatrooms, cache, workerFrame>>

GenerateResponse(j) ==
  /\ \E outcome \in GenerationOutcomes : GenerateOutcome(j, outcome)

\* a catch block that rethrows instead
SaveRethrows(job) == RetryOrFail(job, "save")

\* the catch block of saveGeminiResponse: log, return the mock {id: 'failed-save'}
SaveCaught(job) == [job EXCEPT !.savedId = FailedSave, !.pc = "progress100"]

\* the invalidation called with its arguments in the wrong order
InvalidationSwapped(job) == <<job.userId, job.chatRoomId>>

\* the arguments of the worker's CacheService.invalidateMessageCache call
InvalidationOf(job) == <<job.chatRoomId, job.userId>>

\* the call of saveGeminiResponse that fails, if any: chatroom.findFirst,
\* message.create, chatroom.update, or the redis commands of the invalidation
SaveOutcomes == {"ok", "find", "create", "update", "invalidate"}

\* what saveGeminiResponse returns when nothing reached its catch block: the row
\* message.create returned, after the invalidation call
SavedMessage(job, id) ==
  [job EXCEPT !.savedId = id, !.invals = Append(@, InvalidationOf(job)),
              !.pc = "progress100"]

\* a deleteByPattern without its catch block: the redis error reaches the catch
\* block of saveGeminiResponse
DeleteByPatternThrows(job, id) == SaveCaught(job)

\* a redis error inside the invalidation: deleteByPattern (clearPattern) logs it
\* and returns, invalidateMessageCache returns, the saved row is returned
DeleteByPatternCaught(job, id) == SavedMessage(job, id)

\* a save that stores the reply through the user-message write path and so
\* charges the user's usage for it
SaveChargesUsage(j, outcome) ==
  /\ jobs[j].state = "active"
  /\ jobs[j].pc = "save"
  /\ Answers(outcome = "ok")
  /\ LET job == jobs[j]
         saved == outcome = "ok" /\ job.chatRoomId \in Chatrooms
     IN  /\ messages' = IF saved
                        THEN Append(messages, NewMessage(messages, job.chatRoomId, "ai", j))
                        ELSE messages
         /\ jobs' = [jobs EXCEPT ![j] =
                       IF saved
                       THEN [job EXCEPT !.savedId = Len(messages) + 1,
                                        !.invals = Append(@, InvalidationOf(job)),
                                        !.pc = "progress100"]
                       ELSE SaveCaught(job)]
         /\ dailyUsage' = IF saved THEN [dailyUsage EXCEPT ![job.userId] = TrackedUsage(job.userId)]
                          ELSE dailyUsage
         /\ dailyMessageCount' = IF saved
                                 THEN [dailyMessageCount EXCEPT ![job.userId] = TrackedUsage(job.userId)]
                                 ELSE dailyMessageCount
  /\ UNCHANGED <<subscriptionStatus, subscriptionTier, usageAtStart, reqs, window,
                 chatrooms, cache, cacheService>>

\* a save that writes the reply over the row of the message it answers
UpdateOriginalMessage(table, job, j) ==
  IF job.messageId \in 1..Len(table)
  THEN [table EXCEPT ![job.messageId] = [@ EXCEPT !.sender = "ai", !.job = j]]
  ELSE Append(table, NewMessage(table, job.chatRoomId, "ai", j))

\* a save that keeps one AI reply per chatroom: a later reply replaces the row
\* of the earlier one
UpsertChatroomReply(table, job, j) ==
  LET old == {i \in 1..Len(table) :
                table[i].chatroomId = job.chatRoomId /\ table[i].sender = "ai"} IN
  IF old = {} THEN Append(table, NewMessage(table, job.chatRoomId, "ai", j))
  ELSE [i \in 1..Len(table) |-> IF i \in old THEN [table[i] EXCEPT !.job = j] ELSE table[i]]

\* db.message.create({ data: { chatroomId: chatRoomId, content, sender: 'ai' } }):
\* a new row; originalMessageId is not used
CreateAiMessage(table, job, j) == Append(table, NewMessage(table, job.chatRoomId, "ai", j))

\* saveGeminiResponse(messageId, chatRoomId, userId, response), the whole function:
\* chatroom.findFirst (a missing chatroom throws), message.create with sender 'ai',
\* chatroom.update of updatedAt, CacheService.invalidateMessageCache (which catches
\* its own errors), return the saved row. Whatever throws inside is caught; a row
\* already written stays.
SaveGeminiResponse(j, outcome) ==
  /\ jobs[j].state = "active"
  /\ jobs[j].pc = "save"
  /\ Answers(outcome = "ok")
  /\ LET job == jobs[j]
         found == /\ outcome # "find"
                  /\ job.chatRoomId \in Chatrooms
                  /\ chatrooms[job.chatRoomId].exists
         created == found /\ outcome # "create"
         updated == created /\ outcome # "update"
     IN  /\ messages' = IF created THEN CreateAiMessage(messages, job, j) ELSE messages
         /\ chatrooms' = IF updated
                         THEN TouchChatroom(chatrooms, job.chatRoomId, Len(messages) + 1)
                         ELSE chatrooms
         /\ cache' = IF updated /\ outcome = "ok"
                     THEN InvalidateMessageCache(cache, cacheService, job.chatRoomId, job.userId)
                     ELSE cache
         /\ jobs' = [jobs EXCEPT ![j] =
                       IF updated /\ outcome = "ok" THEN SavedMessage(job, Len(messages) + 1)
                       ELSE IF updated THEN DeleteByPatternCaught(job, Len(messages) + 1)
                       ELSE SaveCaught(job)]
  /\ UNCHANGED workerFrame

\* processGeminiJob after the save: updateProgress(100), then return the result
\* {geminiResponse, savedMessageId}; the job is completed and keeps both
FinishJob(j) ==
  /\ jobs[j].state = "active"
  /\ jobs[j].pc = "progress100"
  /\ \E ok \in BOOLEAN :
       /\ Answers(ok)
       /\ jobs' = [jobs EXCEPT ![j] =
                  IF ok THEN [jobs[j] EXCEPT !.state = "completed", !.pc = "idle"]
                  ELSE RetryOrFail(jobs[j], "progress")]
  /\ UNCHANGED <<messages, chatrooms, cache, workerFrame>>

(* ------------------------------- Spec --------------------------------- *)
Next ==
  \/ \E u \in Users, c \in Chatrooms : SendMessage(u, c)
  \/ \E u \in Users, c \in Chatrooms : SendMessageToChatroom(u, c)
  \/ \E u \in Users, c \in Chatrooms : \E ctx \in {None, c} : EnqueueTestMessage(u, c, ctx)
  \/ \E u \in Users, st \in WebhookStatuses : UpdateSubscriptionFromWebhook(u, st)
  \/ \E j \in JobIds : StartJob(j)
  \/ \E j \in JobIds : PromoteDelayed(j)
  \/ \E j \in JobIds : FetchHistory(j)
  \/ \E j \in JobIds : GenerateResponse(j)
  \/ \E j \in JobIds, outcome \in SaveOutcomes : SaveGeminiResponse(j, outcome)
  \/ \E j \in JobIds : FinishJob(j)

Spec == Init /\ [][Next]_vars

\* the steps of job j that the worker and the queue take on their own
JobStep(j) ==
  \/ StartJob(j)
  \/ PromoteDelayed(j)
  \/ FetchHistory(j)
  \/ GenerateResponse(j)
  \/ \E outcome \in SaveOutcomes : SaveGeminiResponse(j, outcome)
  \/ FinishJob(j)

\* how far a job is from a terminal state: the attempts it has left, then the
\* awaits left in the running attempt
Rank(job) ==
  IF job.state \in {"none", "completed", "failed"} THEN 0
  ELSE 10 * (attempts - job.attemptsMade)
       + (CASE job.state = "delayed" -> 7
            [] job.state = "waiting" -> 6
            [] job.pc = "history" -> 5
            [] job.pc = "generate" -> 4
            [] job.pc = "save" -> 3
            [] OTHER -> 2)

(* ----------------------------- SpecWindow ----------------------------- *)
windowFrame == <<userVars, jobs, reqs, faults, chatrooms, cache, cacheService>>

RowsOf(table, room) == {i \in 1..Len(table) : table[i].chatroomId = room}

\* db.message.create in chatroom c; a conversation alternates user and ai rows
InsertMessage(c) ==
  /\ Len(messages) < MaxMsgs
  /\ LET who == IF Cardinality(RowsOf(messages, c)) % 2 = 0 THEN "user" ELSE "ai"
     IN  messages' = Append(messages, NewMessage(messages, c, who, 0))
  /\ UNCHANGED <<window, windowFrame>>

\* getConversationHistory(c) called on the table as it is now
BuildWindow(c) ==
  /\ window' = [room |-> c, at |-> Len(messages),
                history |-> ConversationHistory(messages, c)]
  /\ UNCHANGED <<messages, windowFrame>>

NextWindow ==
  \/ \E c \in WindowRooms : InsertMessage(c)
  \/ \E c \in WindowRooms : BuildWindow(c)

SpecWindow == Init /\ [][NextWindow]_vars

\* the table the last getConversationHistory call read
TableAtCall == SubSeq(messages, 1, window.at)

\* the ids of the chatroom's rows at the call, oldest first
RoomIdsAtCall == LET rows == FindManyAsc(TableAtCall, window.room)
                 IN  [i \in 1..Len(rows) |-> rows[i].id]

WindowIds == [i \in 1..Len(window.history) |-> window.history[i].msg]

\* the last k elements of s (all of s when it has fewer)
LastK(s, k) == IF Len(s) <= k THEN s ELSE SubSeq(s, Len(s) - k + 1, Len(s))

(* ------------------- concurrent createMessage calls ------------------ *)
\* the subscription statuses a payment webhook delivers
Statuses == {"active", "canceled", "incomplete", "past_due", "unpaid"}

sendFrame == <<subscriptionStatus, subscriptionTier, usageAtStart, faults, window,
              cacheService>>

\* a user of either tier who has sent nothing today (no DailyUsage row), one
\* message, or is within MaxHeadroom messages of the tier's limit
InitSend ==
  /\ subscriptionStatus = [u \in Users |-> "active"]
  /\ subscriptionTier \in [Users -> Tiers]
  /\ dailyUsage \in [Users -> {-1, 1} \cup
                     UNION {{DailyLimit(t) - h : h \in 0..MaxHeadroom} : t \in Tiers}]
  /\ \A u \in Users : dailyUsage[u] <= DailyLimit(subscriptionTier[u])
  /\ dailyMessageCount = [u \in Users |-> IF dailyUsage[u] = -1 THEN 0 ELSE dailyUsage[u]]
  /\ usageAtStart = dailyMessageCount
  /\ messages = <<>>
  /\ jobs = [j \in JobIds |-> NoJob]
  /\ reqs = [r \in ReqIds |-> NoReq]
  /\ faults = 0
  /\ window = NoWindow
  /\ chatrooms = InitChatrooms
  /\ cacheService \in CacheServices
  /\ cache = AllKeys(cacheService)

\* createMessage up to the ownership check: chatroom.findFirst({id, userId})
FindChatroom(r, u, c) ==
  /\ reqs[r].pc = "idle"
  /\ reqs' = [reqs EXCEPT ![r] =
       [@ EXCEPT !.userId = u, !.chatroomId = c,
                 !.pc = IF chatrooms[c].exists /\ chatroomOwner[c] = u
                        THEN "canSend" ELSE "thrown"]]
  /\ UNCHANGED <<sendFrame, jobs, dailyUsage, dailyMessageCount, messages, chatrooms, cache>>

\* a catch block that lets the request through when the store cannot be read
CanSendFailsOpen(u, ok) ==
  IF ok THEN CanSendMessage(subscriptionStatus[u], subscriptionTier[u], dailyMessageCount[u])
  ELSE [canSend |-> TRUE, reason |-> "System error"]

\* SubscriptionService.canSendMessage(userId): the decision on the user row, or,
\* when user.findUnique throws, the value its catch block returns
CanSendMessageCall(u, ok) ==
  IF ok THEN CanSendMessage(subscriptionStatus[u], subscriptionTier[u], dailyMessageCount[u])
  ELSE [canSend |-> FALSE, reason |-> "System error"]

\* createMessage ignoring what canSendMessage returned
AfterCanSendIgnored(decision) == "create"

\* createMessage: if (!canSend) throw new ValidationError('Cannot send message: ...')
AfterCanSend(decision) == IF decision.canSend THEN "create" ELSE "thrown"

\* createMessage awaits canSendMessage; ok: the read of the user row succeeded
CanSendOutcome(r, ok) ==
  /\ reqs[r].pc = "canSend"
  /\ LET decision == CanSendMessageCall(reqs[r].userId, ok) IN
     reqs' = [reqs EXCEPT ![r].decision = decision, ![r].pc = AfterCanSend(decision)]
  /\ UNCHANGED <<sendFrame, jobs, dailyUsage, dailyMessageCount, messages, chatrooms, cache>>

CheckCanSend(r) == \E ok \in BOOLEAN : CanSendOutcome(r, ok)

\* message.create and chatroom.update
CreateRow(r) ==
  /\ reqs[r].pc = "create"
  /\ messages' = Append(messages, NewMessage(messages, reqs[r].chatroomId, "user", 0))
  /\ chatrooms' = TouchChatroom(chatrooms, reqs[r].chatroomId, Len(messages) + 1)
  /\ reqs' = [reqs EXCEPT ![r].pc = "findUnique", ![r].msgId = Len(messages) + 1]
  /\ UNCHANGED <<sendFrame, jobs, dailyUsage, dailyMessageCount, cache>>

\* trackMessageUsage: dailyUsage.findUnique({userId, date: today})
TrackFindUnique(r) ==
  /\ reqs[r].pc = "findUnique"
  /\ reqs' = [reqs EXCEPT ![r].usageRead = dailyUsage[reqs[r].userId], ![r].pc = "write"]
  /\ UNCHANGED <<sendFrame, jobs, dailyUsage, dailyMessageCount, messages, chatrooms, cache>>

\* the messageCount trackMessageUsage writes: create({messageCount: 1}) when
\* findUnique returned null, update({messageCount: usage.messageCount + 1})
\* otherwise; -1 when the create hits @@unique([userId, date])
WriteUsage(read, stored) ==
  IF read = -1 THEN (IF stored = -1 THEN 1 ELSE -1) ELSE read + 1

\* trackMessageUsage: dailyUsage.create or dailyUsage.update; a rejected create
\* is rethrown by trackMessageUsage and by createMessage
TrackWrite(r) ==
  LET u == reqs[r].userId
      w == WriteUsage(reqs[r].usageRead, dailyUsage[u]) IN
  /\ reqs[r].pc = "write"
  /\ IF w = -1
     THEN /\ reqs' = [reqs EXCEPT ![r].pc = "trackThrown"]
          /\ UNCHANGED dailyUsage
     ELSE /\ dailyUsage' = [dailyUsage EXCEPT ![u] = w]
          /\ reqs' = [reqs EXCEPT ![r].written = w, ![r].pc = "userUpdate"]
  /\ UNCHANGED <<sendFrame, jobs, dailyMessageCount, messages, chatrooms, cache>>

\* trackMessageUsage: user.update({dailyMessageCount: usage.messageCount});
\* createMessage then invalidates the cache and returns
TrackUserUpdate(r) ==
  /\ reqs[r].pc = "userUpdate"
  /\ dailyMessageCount' = [dailyMessageCount EXCEPT ![reqs[r].userId] = reqs[r].written]
  /\ cache' = InvalidateMessageCache(cache, cacheService, reqs[r].chatroomId, reqs[r].userId)
  /\ reqs' = [reqs EXCEPT ![r].pc = "done"]
  /\ UNCHANGED <<sendFrame, jobs, dailyUsage, messages, chatrooms>>

SendRoutes == {"sendMessage", "sendMessageToChatroom"}

\* the 201 answer of both controllers when the job was added
Queued ==
  [status |-> 201, message |-> "Message sent successfully and queued for AI processing",
   warning |-> None]

\* sendMessage catches the queue error around the enqueue alone and still
\* answers 201 with a warning; in sendMessageToChatroom the enqueue shares the
\* try block of createMessage, whose catch answers 500
OnQueueError(route) ==
  IF route = "sendMessage"
  THEN [status |-> 201,
        message |-> "Message sent successfully, but AI processing failed to queue",
        warning |-> "AI processing unavailable"]
  ELSE [status |-> 500, message |-> "Failed to send message", warning |-> None]

\* ChatroomController.sendMessageToChatroom after createMessage returned:
\* enqueueGeminiMessage for the stored message, then the 201 response
EnqueueReply(r) ==
  /\ reqs[r].pc = "done"
  /\ FreeSlot
  /\ jobs' = [jobs EXCEPT ![NextJobId] =
                EnqueueGeminiMessage(reqs[r].msgId, reqs[r].chatroomId, reqs[r].userId,
                                     reqs[r].chatroomId, "sendMessageToChatroom")]
  /\ reqs' = [reqs EXCEPT ![r].pc = "responded", ![r].jobId = NextJobId,
                          ![r].route = "sendMessageToChatroom", ![r].response = Queued]
  /\ UNCHANGED <<sendFrame, dailyUsage, dailyMessageCount, messages, chatrooms, cache>>

\* enqueueGeminiMessage throws (no queue, or queue.add fails) after createMessage
\* returned, on either route: the controller's catch block answers
EnqueueThrows(r, route) ==
  /\ reqs[r].pc = "done"
  /\ reqs' = [reqs EXCEPT ![r].pc = "responded", ![r].route = route,
                          ![r].response = OnQueueError(route)]
  /\ UNCHANGED <<sendFrame, jobs, dailyUsage, dailyMessageCount, messages, chatrooms, cache>>

NextSend ==
  \/ \E r \in ReqIds, u \in Users, c \in Chatrooms : FindChatroom(r, u, c)
  \/ \E r \in ReqIds : CheckCanSend(r)
  \/ \E r \in ReqIds : CreateRow(r)
  \/ \E r \in ReqIds : TrackFindUnique(r)
  \/ \E r \in ReqIds : TrackWrite(r)
  \/ \E r \in ReqIds : TrackUserUpdate(r)
  \/ \E r \in ReqIds : EnqueueReply(r)
  \/ \E r \in ReqIds, route \in SendRoutes : EnqueueThrows(r, route)
  \/ \E u \in Users, status \in Statuses : UpdateSubscriptionFromWebhook(u, status)

SpecSend == InitSend /\ [][NextSend]_vars

\* the trackMessageUsage calls that have returned or thrown
TrackCalls == {r \in ReqIds : reqs[r].pc \in {"done", "responded", "trackThrown"}}

\* no trackMessageUsage call is between its findUnique and its return
TrackQuiescent == \A r \in ReqIds : reqs[r].pc \notin {"write", "userUpdate"}

(* ------------------------------- claims ------------------------------- *)

\* C2: once M concurrent trackMessageUsage calls for one user and day have all
\* ended, every one of them has succeeded and the day's count is the initial
\* count (0 when there was no row) plus M, under every interleaving.
C2_NoLostUpdate ==
  TrackQuiescent
  => \A u \in Users :
       LET calls == {r \in TrackCalls : reqs[r].userId = u} IN
       /\ \A r \in calls : reqs[r].pc = "done"
       /\ calls # {} => dailyUsage[u] = usageAtStart[u] + Cardinality(calls)


\* C1: no job starts a generation call while its user's daily count has reached
\* the tier limit or the user's subscription is not active, whatever route
\* enqueued the job and whenever it was enqueued.
C1_NoGenerationForDeniedUser ==
  [][\A j \in JobIds :
       (jobs[j].pc # "generate" /\ jobs'[j].pc = "generate") => Allowed(jobs'[j].userId)]_vars

\* C3: a completed job has persisted exactly one message with sender "ai",
\* a failed job none.
C3_TerminalJobReplyCount ==
  \A j \in JobIds :
    /\ jobs[j].state = "completed" => Cardinality(AiMessagesOf(j)) = 1
    /\ jobs[j].state = "failed" => Cardinality(AiMessagesOf(j)) = 0

C5_RejectedFailsWithoutRetry ==
  [][\A j \in JobIds :
       GenerateOutcome(j, "rejected")
       => jobs'[j].state = "failed" /\ AiMessagesOf(j) = {}]_vars

C6_AttemptsInvariant ==
  \A j \in JobIds :
    /\ jobs[j].attemptsMade <= attempts
    /\ jobs[j].state \in {"waiting", "active", "delayed"} => jobs[j].attemptsMade < attempts
    /\ jobs[j].state = "failed" => jobs[j].attemptsMade = attempts
    /\ jobs[j].state = "delayed"
         => jobs[j].delay = backoffDelay * Pow2(jobs[j].attemptsMade - 1)

\* C6: a job whose generation call fails with a transient error on every attempt
\* is attempted exactly 3 times (attempts), with a delay of 2000 ms doubled per
\* failure between attempts, and then is failed; no job is attempted a 4th time
\* and no job stays pending forever: a pending job always has a step to take,
\* and every step of a job brings it strictly closer to a terminal state.
C6_TransientRetriedToCap ==
  /\ []C6_AttemptsInvariant
  /\ [](\A j \in JobIds :
          jobs[j].state \in {"waiting", "active", "delayed"} => ENABLED JobStep(j))
  /\ [][\A j \in JobIds :
          jobs[j].state \in {"waiting", "active", "delayed"} /\ jobs'[j] # jobs[j]
          => Rank(jobs'[j]) < Rank(jobs[j])]_vars

C6_Witness ==
  \E j \in JobIds :
    jobs[j].state = "failed" /\ jobs[j].onlyTransient /\ jobs[j].attemptsMade = 3

C10_HistoryFailureBlocksGeneration ==
  \A j \in JobIds : ~(jobs[j].pc = "generate" /\ jobs[j].histFailed)


\* C8: the window getConversationHistory returns is the k = 10 most recently
\* created messages of the chatroom, oldest first (for 12 messages: 3 to 12).
C8_WindowIsMostRecent ==
  window.room # None => WindowIds = LastK(RoomIdsAtCall, historyTake)

\* C9: the window has at most k = 10 entries, all of them rows of the chatroom,
\* in non-decreasing creation-time order, and is empty when the chatroom has no
\* messages.
C9_WindowBoundedAndOrdered ==
  window.room # None
  => /\ Len(window.history) <= historyTake
     /\ \A i \in 1..Len(window.history) :
          \E k \in 1..Len(RoomIdsAtCall) : RoomIdsAtCall[k] = window.history[i].msg
     /\ \A i, k \in 1..Len(window.history) :
          i < k => window.history[i].createdAt <= window.history[k].createdAt
     /\ RoomIdsAtCall = <<>> => window.history = <<>>

C9_Witness ==
  /\ window.room # None
  /\ Len(RoomIdsAtCall) > historyTake
  /\ Len(window.history) = historyTake


\* C17: no step the worker or the queue takes for a job (start, retry delay,
\* context window, generation, save of the AI reply, completion or failure)
\* changes a usage record or a user's daily message count.
C17_WorkerLeavesUsageAlone ==
  [][\A j \in JobIds : JobStep(j) => UNCHANGED <<dailyUsage, dailyMessageCount>>]_vars

C17_Witness ==
  \E j \in JobIds :
    /\ jobs[j].state = "failed" /\ AiMessagesOf(j) # {}
    /\ \E k \in JobIds : jobs[k].state = "completed" /\ jobs[k].savedId > 0

\* C20: a job whose generation call has already succeeded (it has persisted a
\* reply) makes no further generation call.
C20_GenerationDispatchedOnce ==
  [][\A j \in JobIds : GenerateResponse(j) => AiMessagesOf(j) = {}]_vars

(* ------------------------------ SpecDay ------------------------------ *)
\* the calendar day changes: trackMessageUsage's key {userId, date: today} now
\* names a row that does not exist. Nothing is written at midnight:
\* resetDailyUsage, the only code that clears user.dailyMessageCount, has no
\* caller in the repository.
NextDay ==
  /\ dailyUsage' = [u \in Users |-> -1]
  /\ usageAtStart' = [u \in Users |-> 0]
  /\ UNCHANGED <<subscriptionStatus, subscriptionTier, dailyMessageCount,
                 messages, jobs, reqs, faults, window, chatrooms, cache, cacheService>>

\* a send request run to its end, one at a time
SendOnDay(u, c) == CreateUserMessage(u, c) /\ UNCHANGED jobs

NextOverDays ==
  \/ \E u \in Users, c \in Chatrooms : SendOnDay(u, c)
  \/ NextDay
  \/ \E u \in Users, status \in Statuses : UpdateSubscriptionFromWebhook(u, status)

SpecDay == InitSend /\ [][NextOverDays]_vars

(* ----------------------- claims on the send path ---------------------- *)
\* C12: a user with active status who has sent no message yet today (no usage
\* row for today) is allowed to send, whatever count an earlier day reached.
C12_AllowedAfterRollover ==
  \A u \in Users :
    (subscriptionStatus[u] = "active" /\ dailyUsage[u] = -1) => Allowed(u)

DailyLimitExceeded == [canSend |-> FALSE, reason |-> "Daily message limit exceeded"]

InactiveSubscription == [canSend |-> FALSE, reason |-> "Inactive subscription"]

SystemError == [canSend |-> FALSE, reason |-> "System error"]

\* the user messages stored in the chatrooms of user u
StoredUserMessages(u) ==
  {i \in 1..Len(messages) :
     messages[i].sender = "user" /\ chatroomOwner[messages[i].chatroomId] = u}

\* no send request is between two of its awaits
RequestsEnded ==
  \A r \in ReqIds : reqs[r].pc \in {"idle", "thrown", "trackThrown", "done", "responded"}

C13_InactiveDecision ==
  [][\A r \in ReqIds :
       (CanSendOutcome(r, TRUE) /\ subscriptionStatus[reqs[r].userId] # "active")
       => reqs'[r].decision = InactiveSubscription]_vars

C13_Witness ==
  \E r \in ReqIds :
    /\ reqs[r].decision = InactiveSubscription
    /\ subscriptionStatus[reqs[r].userId] = "past_due"
    /\ dailyMessageCount[reqs[r].userId] < DailyLimit(subscriptionTier[reqs[r].userId])

\* C14: when the read of the user row raises a store error, canSendMessage
\* returns the value {canSend: false, reason: 'System error'}: it never returns
\* allowed, and the request stores no message.
C14_FailsClosed ==
  /\ [][\A r \in ReqIds : CanSendOutcome(r, FALSE) => reqs'[r].decision = SystemError]_vars
  /\ [](\A r \in ReqIds :
          reqs[r].decision.reason = "System error"
          => ~reqs[r].decision.canSend /\ reqs[r].msgId = 0)

C14_Witness ==
  \E r \in ReqIds : reqs[r].decision = SystemError /\ reqs[r].pc = "thrown"

\* C15: the user messages accepted for one user within one day, those sent
\* before the requests began included, never exceed the tier's daily limit.
C15_AcceptedWithinLimit ==
  \A u \in Users :
    usageAtStart[u] + Cardinality(StoredUserMessages(u)) <= DailyLimit(subscriptionTier[u])

\* C16: once the send requests have ended, the day's usage count has grown by
\* exactly one for each user message stored and by nothing else.
C16_ChargedOncePerStoredMessage ==
  RequestsEnded
  => \A u \in Users :
       (IF dailyUsage[u] = -1 THEN 0 ELSE dailyUsage[u])
         = usageAtStart[u] + Cardinality(StoredUserMessages(u))

\* C18 as stated: the message of a request that was refused for the daily limit
\* is persisted all the same.
C18_SixthMessagePersisted ==
  \A r \in ReqIds :
    (reqs[r].decision = DailyLimitExceeded /\ reqs[r].pc # "canSend") => reqs[r].msgId # 0

\* C18 amended: when a basic-tier user whose daily message count is 5 (the limit)
\* sends a 6th message, createMessage refuses it with 'Daily message limit
\* exceeded': the message is not persisted, no reply job is enqueued for it and
\* so no AI reply is produced for it.
C18_SixthMessageRejected ==
  /\ [][\A r \in ReqIds :
          LET u == reqs[r].userId IN
          (/\ CanSendOutcome(r, TRUE)
           /\ subscriptionStatus[u] = "active" /\ subscriptionTier[u] = "basic"
           /\ dailyMessageCount[u] = basicTierDailyLimit)
          => /\ reqs'[r].decision = DailyLimitExceeded
             /\ reqs'[r].pc = "thrown"
             /\ UNCHANGED <<messages, jobs>>]_vars
  /\ [](\A r \in ReqIds :
          reqs[r].decision = DailyLimitExceeded
          => /\ reqs[r].pc = "thrown" /\ reqs[r].msgId = 0 /\ reqs[r].jobId = 0
             /\ \A j \in JobIds : jobs[j].messageId = 0 \/ jobs[j].messageId # reqs[r].msgId)

C18_Witness ==
  \E r \in ReqIds :
    /\ reqs[r].decision = DailyLimitExceeded /\ reqs[r].pc = "thrown"
    /\ subscriptionTier[reqs[r].userId] = "basic"
    /\ dailyMessageCount[reqs[r].userId] = basicTierDailyLimit

\* C19: when the check of createMessage disallows the user, the step charges no
\* usage and stores nothing, no reply job (hence no generation attempt) is ever
\* made for the request, and the refusal is final: the request takes no further
\* step.
C19_DenialIsTerminalAndFree ==
  /\ [][\A r \in ReqIds :
          ((\E ok \in BOOLEAN : CanSendOutcome(r, ok)) /\ ~reqs'[r].decision.canSend)
          => /\ reqs'[r].pc = "thrown"
             /\ UNCHANGED <<dailyUsage, dailyMessageCount, messages, jobs>>]_vars
  /\ [][\A r \in ReqIds : reqs[r].pc = "thrown" => reqs'[r] = reqs[r]]_vars
  /\ [](\A r \in ReqIds :
          reqs[r].pc = "thrown"
          => reqs[r].msgId = 0 /\ reqs[r].jobId = 0 /\ reqs[r].written = -1)

C19_Witness ==
  \E r \in ReqIds :
    /\ reqs[r].pc = "thrown" /\ reqs[r].decision = InactiveSubscription
    /\ \E q \in ReqIds : reqs[q].pc = "responded"

(* ---------------------- persistence and the cache --------------------- *)
\* C22: a redis error inside the cache invalidation that follows a persisted AI
\* reply does not fail the attempt: the job goes on to its last progress update
\* with the id of the row it wrote as savedMessageId, no attempt is counted, and
\* completing the job keeps that id in the result.
C22_InvalidationFailureKeepsReply ==
  [][\A j \in JobIds :
       /\ (SaveGeminiResponse(j, "invalidate") /\ Len(messages') > Len(messages))
            => /\ jobs'[j].state = "active"
               /\ jobs'[j].pc = "progress100"
               /\ jobs'[j].attemptsMade = jobs[j].attemptsMade
               /\ jobs'[j].savedId = Len(messages')
               /\ messages'[jobs'[j].savedId].job = j
               /\ messages'[jobs'[j].savedId].sender = "ai"
               /\ cache' = cache
       /\ (jobs[j].pc = "progress100" /\ jobs'[j].state = "completed")
            => jobs'[j].savedId = jobs[j].savedId]_vars

\* a job completed with a real saved id although the entries its invalidation
\* should have removed are still cached
C22_Witness ==
  \E j \in JobIds :
    /\ jobs[j].state = "completed"
    /\ jobs[j].savedId > 0
    /\ messages[jobs[j].savedId].job = j
    /\ \E i \in 1..Len(jobs[j].invals) :
         AfterPatterns(cache, PatternsOf(cacheService, "invalidateMessageCache",
                                         jobs[j].invals[i][1], jobs[j].invals[i][2])) # cache

\* C28: every row a worker step adds has sender "ai" and the chatroom id of
\* the job that wrote it, and the step that adds it also sets the chatroom's
\* updatedAt to the time of the write.
C28_PersistBumpsUpdatedAt ==
  [][(Len(messages') > Len(messages) /\ messages'[Len(messages')].job # 0)
       => LET m == messages'[Len(messages')] IN
          /\ m.sender = "ai"
          /\ m.chatroomId = jobs[m.job].chatRoomId
          /\ chatrooms'[m.chatroomId].updatedAt = m.createdAt]_vars

(* ----------------------------- SpecDelete ----------------------------- *)
\* the worker racing with the deletion of the chatroom: saveGeminiResponse is
\* taken one await at a time
deleteFrame == <<userVars, reqs, window, cacheService>>

\* a message.create that does not check the chatroom it refers to
ForeignKeyUnchecked(rooms, c) == TRUE

\* Message.chatroom @relation(fields: [chatroomId], references: [id]): a row can
\* be inserted only for a chatroom that exists
ForeignKeyHolds(rooms, c) == c \in DOMAIN rooms /\ rooms[c].exists

\* onDelete: Cascade: the rows of the deleted chatroom go with it
CascadeDelete(table, c) == SelectSeq(table, LAMBDA m : m.chatroomId # c)

\* ChatroomService.deleteChatroom(chatroomId, userId): findFirst({id, userId}),
\* chatroom.delete, invalidateChatroomCache
DeleteChatroom(u, c) ==
  /\ chatrooms[c].exists
  /\ chatroomOwner[c] = u
  /\ chatrooms' = [chatrooms EXCEPT ![c].exists = FALSE]
  /\ messages' = CascadeDelete(messages, c)
  /\ cache' = AfterPatterns(cache, PatternsOf(cacheService, "invalidateChatroomCache", c, u))
  /\ UNCHANGED <<jobs, faults, deleteFrame>>

\* saveGeminiResponse, first await: chatroom.findFirst({id}); no row, or a store
\* error, ends in the catch block
SaveFind(j) ==
  /\ jobs[j].state = "active"
  /\ jobs[j].pc = "save"
  /\ \E ok \in BOOLEAN :
       /\ Answers(ok)
       /\ jobs' = [jobs EXCEPT ![j] =
                     IF ok /\ ForeignKeyHolds(chatrooms, jobs[j].chatRoomId)
                     THEN [jobs[j] EXCEPT !.pc = "save.create"]
                     ELSE SaveCaught(jobs[j])]
  /\ UNCHANGED <<messages, chatrooms, cache, deleteFrame>>

\* second await: message.create with sender 'ai'; the store rejects a row whose
\* chatroom is gone
SaveCreate(j) ==
  /\ jobs[j].state = "active"
  /\ jobs[j].pc = "save.create"
  /\ \E ok \in BOOLEAN :
       /\ Answers(ok)
       /\ IF ok /\ ForeignKeyHolds(chatrooms, jobs[j].chatRoomId)
          THEN /\ messages' = CreateAiMessage(messages, jobs[j], j)
               /\ jobs' = [jobs EXCEPT ![j] = [jobs[j] EXCEPT !.pc = "save.update",
                                                              !.savedId = Len(messages) + 1]]
          ELSE /\ jobs' = [jobs EXCEPT ![j] = SaveCaught(jobs[j])]
               /\ UNCHANGED messages
  /\ UNCHANGED <<chatrooms, cache, deleteFrame>>

\* third await: chatroom.update({ where: { id } }); a missing row makes it throw
SaveUpdate(j) ==
  /\ jobs[j].state = "active"
  /\ jobs[j].pc = "save.update"
  /\ \E ok \in BOOLEAN :
       /\ Answers(ok)
       /\ IF ok /\ chatrooms[jobs[j].chatRoomId].exists
          THEN /\ chatrooms' = TouchChatroom(chatrooms, jobs[j].chatRoomId, jobs[j].savedId)
               /\ jobs' = [jobs EXCEPT ![j] = [jobs[j] EXCEPT !.pc = "save.invalidate"]]
          ELSE /\ jobs' = [jobs EXCEPT ![j] = SaveCaught(jobs[j])]
               /\ UNCHANGED chatrooms
  /\ UNCHANGED <<messages, cache, deleteFrame>>

\* fourth await: invalidateMessageCache, then return savedMessage
SaveInvalidate(j) ==
  /\ jobs[j].state = "active"
  /\ jobs[j].pc = "save.invalidate"
  /\ \E ok \in BOOLEAN :
       /\ Answers(ok)
       /\ cache' = IF ok THEN InvalidateMessageCache(cache, cacheService, jobs[j].chatRoomId,
                                                     jobs[j].userId)
                   ELSE cache
       /\ jobs' = [jobs EXCEPT ![j] =
                     IF ok THEN SavedMessage(jobs[j], jobs[j].savedId)
                     ELSE DeleteByPatternCaught(jobs[j], jobs[j].savedId)]
  /\ UNCHANGED <<messages, chatrooms, deleteFrame>>

\* the steps of job j with the save taken await by await
JobStepByAwait(j) ==
  \/ StartJob(j)
  \/ PromoteDelayed(j)
  \/ FetchHistory(j)
  \/ GenerateResponse(j)
  \/ SaveFind(j)
  \/ SaveCreate(j)
  \/ SaveUpdate(j)
  \/ SaveInvalidate(j)
  \/ FinishJob(j)

NextDelete ==
  \/ \E u \in Users, c \in Chatrooms : SendMessageToChatroom(u, c)
  \/ \E u \in Users, c \in Chatrooms : EnqueueTestMessage(u, c, c)
  \/ \E u \in Users, c \in Chatrooms : DeleteChatroom(u, c)
  \/ \E j \in JobIds : StartJob(j)
  \/ \E j \in JobIds : PromoteDelayed(j)
  \/ \E j \in JobIds : FetchHistory(j)
  \/ \E j \in JobIds : GenerateResponse(j)
  \/ \E j \in JobIds : SaveFind(j)
  \/ \E j \in JobIds : SaveCreate(j)
  \/ \E j \in JobIds : SaveUpdate(j)
  \/ \E j \in JobIds : SaveInvalidate(j)
  \/ \E j \in JobIds : FinishJob(j)

SpecDelete == Init /\ [][NextDelete]_vars

\* Rank with the awaits of the save counted one by one
RankByAwait(job) ==
  IF job.state \in {"none", "completed", "failed"} THEN 0
  ELSE 10 * (attempts - job.attemptsMade)
       + (CASE job.state = "delayed" -> 9
            [] job.state = "waiting" -> 8
            [] job.pc = "history" -> 7
            [] job.pc = "generate" -> 6
            [] job.pc = "save" -> 5
            [] job.pc = "save.create" -> 4
            [] job.pc = "save.update" -> 3
            [] job.pc = "save.invalidate" -> 2
            [] OTHER -> 1)

PendingJobs == {j \in JobIds : jobs[j].state \in {"waiting", "active", "delayed"}}

\* C29: once a chatroom is deleted no row of it exists, whatever its jobs in
\* flight do afterwards; such a job always has a next step, no step of the save
\* is counted as a failed attempt because the chatroom is gone, every step
\* brings the job closer to a terminal state, and no job exceeds its attempts.
C29_DeletedChatroomJobEnds ==
  /\ [](\A c \in Chatrooms : ~chatrooms[c].exists =>
           /\ \A i \in 1..Len(messages) : messages[i].chatroomId # c
           /\ \A j \in PendingJobs : ENABLED JobStepByAwait(j))
  /\ [](\A j \in JobIds : jobs[j].attemptsMade <= attempts)
  /\ [][\A j \in JobIds :
          /\ jobs'[j] # jobs[j] /\ jobs[j].state # "none"
               => RankByAwait(jobs'[j]) < RankByAwait(jobs[j])
          /\ (jobs'[j] # jobs[j] /\ jobs[j].pc \in {"save", "save.create", "save.update"}
                /\ faults' = faults /\ ~chatrooms[jobs[j].chatRoomId].exists)
               => /\ jobs'[j].state = "active"
                  /\ jobs'[j].pc = "progress100"
                  /\ jobs'[j].savedId = FailedSave
                  /\ jobs'[j].attemptsMade = jobs[j].attemptsMade]_vars

\* a job that was in flight when its chatroom was deleted has completed: with no
\* store failure at all, only the missing chatroom makes the save return the mock
C29_Witness ==
  \E j \in JobIds :
    /\ jobs[j].route = "sendMessageToChatroom"
    /\ ~chatrooms[jobs[j].chatRoomId].exists
    /\ jobs[j].state = "completed"
    /\ jobs[j].savedId = FailedSave
    /\ faults = 0

(* ---------------------------- SpecPriority ---------------------------- *)
\* the options a caller of enqueueGeminiMessage can pass
OptionSets ==
  {NoOptions, [priority |-> PriorityLow], [priority |-> PriorityMedium, delay |-> 0]}

priorityFrame == <<userVars, messages, reqs, faults, window, chatrooms, cache, cacheService>>

\* a caller of QueueService.enqueueGeminiMessage(data, options)
EnqueueWithOptions(u, c, options) ==
  /\ FreeSlot
  /\ jobs' = [jobs EXCEPT ![NextJobId] = EnqueueGeminiMessageWith(0, c, u, c, "queue", options)]
  /\ UNCHANGED priorityFrame

\* BullMQ hands the worker the waiting job with the smallest priority number
StartByPriority(j) ==
  /\ \A k \in JobIds : jobs[k].state = "waiting" => jobs[j].priority <= jobs[k].priority
  /\ StartJob(j)

NextPriority ==
  \/ \E u \in Users, c \in Chatrooms, options \in OptionSets : EnqueueWithOptions(u, c, options)
  \/ \E j \in JobIds : StartByPriority(j)
  \/ \E j \in JobIds : PromoteDelayed(j)
  \/ \E j \in JobIds : FetchHistory(j)
  \/ \E j \in JobIds : GenerateResponse(j)
  \/ \E j \in JobIds, outcome \in SaveOutcomes : SaveGeminiResponse(j, outcome)
  \/ \E j \in JobIds : FinishJob(j)

SpecPriority == Init /\ [][NextPriority]_vars

Priorities == {PriorityHigh, PriorityMedium, PriorityLow}

WithPriority(job, p) == [job EXCEPT !.priority = p]

\* C30: a job enqueued without options has priority HIGH (1) and delay 0, a
\* priority given by the caller is the job's priority, no step changes it, and
\* every function the worker and the retry policy apply to a job gives the same
\* result, up to the priority itself, whatever the priority is; a row the
\* worker writes does not depend on it.
C30_PriorityOnlyOrdersTheDraw ==
  /\ [][\A u \in Users, c \in Chatrooms, options \in OptionSets :
          EnqueueWithOptions(u, c, options) =>
            LET job == jobs'[NextJobId] IN
            /\ job.priority = (IF Has(options, "priority") THEN options.priority
                               ELSE PriorityHigh)
            /\ job.delay = 0
            /\ job.state = "waiting"]_vars
  /\ [][\A j \in JobIds : jobs[j].state # "none" => jobs'[j].priority = jobs[j].priority]_vars
  /\ [](\A j \in JobIds, p \in Priorities :
          LET job == jobs[j] IN
          /\ \A kind \in GenerationOutcomes \cup {"progress"} :
               RetryOrFail(WithPriority(job, p), kind) = WithPriority(RetryOrFail(job, kind), p)
          /\ \A ok \in BOOLEAN :
               GetConversationHistory(WithPriority(job, p), messages, ok)
                 = WithPriority(GetConversationHistory(job, messages, ok), p)
          /\ SaveCaught(WithPriority(job, p)) = WithPriority(SaveCaught(job), p)
          /\ SavedMessage(WithPriority(job, p), Len(messages) + 1)
               = WithPriority(SavedMessage(job, Len(messages) + 1), p)
          /\ ReplyOf(j, WithPriority(job, p)) = ReplyOf(j, job))
  /\ [][Len(messages') > Len(messages) =>
          LET m == messages'[Len(messages')] IN
          m = NewMessage(messages, jobs[m.job].chatRoomId, "ai", m.job)]_vars

\* jobs enqueued with and without a priority of their own have both completed
\* with a reply stored
C30_Witness ==
  \E j, k \in JobIds :
    /\ jobs[j].state = "completed" /\ jobs[j].priority = PriorityHigh /\ jobs[j].savedId > 0
    /\ jobs[k].state = "completed" /\ jobs[k].priority = PriorityLow /\ jobs[k].savedId > 0

\* C24: a reply job enqueued by a send route refers to a user message that is in
\* the table, in the job's chatroom, from the moment the job exists; the step that
\* stores a user message enqueues at most the one job that refers to it; and no
\* step of the routes, the queue or the worker removes or changes a stored row.
C24_UserMessageStoredAndKept ==
  /\ [](\A j \in JobIds :
          jobs[j].route \in {"sendMessage", "sendMessageToChatroom"} =>
            /\ jobs[j].messageId \in 1..Len(messages)
            /\ messages[jobs[j].messageId].sender = "user"
            /\ messages[jobs[j].messageId].chatroomId = jobs[j].chatRoomId
            /\ messages[jobs[j].messageId].job = 0)
  /\ [][/\ Len(messages') >= Len(messages)
        /\ \A i \in 1..Len(messages) : messages'[i] = messages[i]
        /\ \A j \in JobIds :
             (jobs[j].state = "none" /\ jobs'[j].state # "none" /\ jobs'[j].route # "test")
               => /\ jobs'[j].messageId = Len(messages')
                  /\ Len(messages') = Len(messages) + 1]_vars

\* the reply job of a stored user message used up its attempts and failed, and
\* the user message is still in the table as it was written
C24_Witness ==
  \E j \in JobIds :
    /\ jobs[j].state = "failed"
    /\ jobs[j].route \in {"sendMessage", "sendMessageToChatroom"}
    /\ messages[jobs[j].messageId] = NewMessage(SubSeq(messages, 1, jobs[j].messageId - 1),
                                                jobs[j].chatRoomId, "user", 0)

\* C23: when the enqueue fails after the user message was stored, the message
\* stays stored and the caller is answered that the message was sent, with the
\* reply unavailable, on both send routes.
C23_EnqueueFailureDegrades ==
  \A r \in ReqIds :
    (reqs[r].pc = "responded" /\ reqs[r].jobId = 0)
      => /\ reqs[r].msgId \in 1..Len(messages)
         /\ messages[reqs[r].msgId].sender = "user"
         /\ reqs[r].response.status = 201
         /\ reqs[r].response.warning = "AI processing unavailable"

(* ---------------------------- SpecRetention --------------------------- *)
\* what the queue keeps of its finished jobs. The jobs finish in the order of
\* their ids; a job BullMQ removed has state "removed" and keeps attemptsMade,
\* which is `attempts` exactly for a job that failed for good.
QueueJobIds == 1..MaxQueueJobs

retentionFrame == <<userVars, messages, reqs, faults, window, chatrooms, cache, cacheService>>

\* the state of Init with a queue of MaxQueueJobs job ids
InitRetention ==
  /\ subscriptionStatus = [u \in Users |-> "active"]
  /\ subscriptionTier = [u \in Users |-> "basic"]
  /\ dailyMessageCount = [u \in Users |-> 0]
  /\ dailyUsage = [u \in Users |-> -1]
  /\ usageAtStart = dailyMessageCount
  /\ messages = <<>>
  /\ jobs = [j \in QueueJobIds |-> NoJob]
  /\ reqs = [r \in ReqIds |-> NoReq]
  /\ faults = 0
  /\ window = NoWindow
  /\ chatrooms = InitChatrooms
  /\ cacheService = WorkerCacheService
  /\ cache = AllKeys(cacheService)

Finished == {j \in QueueJobIds : jobs[j].state # "none"}

EverFailed(q) == {j \in DOMAIN q : q[j].state # "none" /\ q[j].attemptsMade = attempts}

EverCompleted(q) == {j \in DOMAIN q : q[j].state # "none" /\ q[j].attemptsMade < attempts}

\* the jobs of `set` that finished after job j
Later(set, j) == {k \in set : k > j}

\* a queue that keeps every failed job
RemoveOnFailNever(q) == q

\* removeOnFail: 50: when a job fails, the failed set is trimmed to its 50
\* most recent jobs
RemoveOnFail(q) ==
  [j \in DOMAIN q |->
     IF q[j].state = "failed" /\ Cardinality(Later(EverFailed(q), j)) >= removeOnFail
     THEN [q[j] EXCEPT !.state = "removed"] ELSE q[j]]

\* removeOnComplete: 100, likewise for the completed set
RemoveOnComplete(q) ==
  [j \in DOMAIN q |->
     IF q[j].state = "completed" /\ Cardinality(Later(EverCompleted(q), j)) >= removeOnComplete
     THEN [q[j] EXCEPT !.state = "removed"] ELSE q[j]]

\* the next job used up its attempts (RetryOrFail on the last one) and is moved
\* to the failed set
FailNext ==
  /\ Cardinality(Finished) < MaxQueueJobs
  /\ LET n == Cardinality(Finished) + 1
         last == [NoJob EXCEPT !.state = "active", !.attemptsMade = attempts - 1]
     IN  jobs' = RemoveOnFail([jobs EXCEPT ![n] = RetryOrFail(last, "transient")])
  /\ UNCHANGED retentionFrame

\* the next job completes, at its first attempt
CompleteNext ==
  /\ Cardinality(Finished) < MaxQueueJobs
  /\ Cardinality(EverCompleted(jobs)) < MaxCompleted
  /\ LET n == Cardinality(Finished) + 1
     IN  jobs' = RemoveOnComplete([jobs EXCEPT ![n] = [NoJob EXCEPT !.state = "completed"]])
  /\ UNCHANGED retentionFrame

\* QueueService.cleanQueue: queue.clean(24 h, 100), whose job type defaults to
\* 'completed': up to 100 completed jobs older than the grace period are removed.
\* The operator cleans when every finished job is older than 24 hours.
CleanQueue ==
  /\ \E j \in QueueJobIds : jobs[j].state = "completed"
  /\ Cardinality({j \in QueueJobIds : jobs[j].state = "completed"}) <= cleanLimit
  /\ jobs' = [j \in QueueJobIds |->
                IF jobs[j].state = "completed"
                THEN [jobs[j] EXCEPT !.state = "removed"] ELSE jobs[j]]
  /\ UNCHANGED retentionFrame

NextRetention ==
  \/ FailNext
  \/ CompleteNext
  \/ CleanQueue

SpecRetention == InitRetention /\ [][NextRetention]_vars

\* getQueueStats(...).failed: queue.getFailed().length
FailedCount == Cardinality({j \in QueueJobIds : jobs[j].state = "failed"})

\* C21 as stated: a job in the failed set stays there through every step that
\* is not an operator's cleanQueue, however many jobs fail after it.
C21_FailedStaysUntilCleaned ==
  [][\A j \in QueueJobIds :
       (jobs[j].state = "failed" /\ ~CleanQueue)
         => jobs'[j].state = "failed"]_vars

\* C21, amended: a job that used up its attempts is in the failed set, and
\* counted by getQueueStats, exactly while fewer than 50 jobs have failed after
\* it; the 50th later failure removes it; cleanQueue never removes a failed job.
C21_FailedKeptAmongLastFifty ==
  /\ [](\A j \in EverFailed(jobs) :
          jobs[j].state = (IF Cardinality(Later(EverFailed(jobs), j)) < removeOnFail
                           THEN "failed" ELSE "removed"))
  /\ [](FailedCount = IF Cardinality(EverFailed(jobs)) < removeOnFail
                      THEN Cardinality(EverFailed(jobs)) ELSE removeOnFail)
  /\ [][CleanQueue
          => \A j \in QueueJobIds : jobs[j].state = "failed" => jobs'[j].state = "failed"]_vars

\* the 51st failure has removed the first failed job; the queue was cleaned
\* meanwhile and the 50 later failures are all retrievable
C21_Witness ==
  /\ \E j \in EverFailed(jobs) : jobs[j].state = "removed"
  /\ \E j \in EverCompleted(jobs) : jobs[j].state = "removed"
  /\ FailedCount = removeOnFail

(* ------------------------------ SpecCache ----------------------------- *)
\* callers of the CacheService run one redis command at a time against a cache
\* that holds every view of every user and chatroom. A call: op and arguments,
\* patterns the patterns it deletes by, todo the indices of the patterns whose
\* KEYS command has not run, dels the key sets read and not yet deleted, failed
\* whether a redis command of the call threw, raised whether the call threw to
\* its caller.
NoCall ==
  [pc |-> "idle", op |-> None, chatroomId |-> None, userId |-> None,
   patterns |-> <<>>, todo |-> {}, dels |-> {}, failed |-> FALSE, raised |-> FALSE]

cacheOwner == [c \in CacheRooms |-> IF c = "c1" THEN "u1" ELSE "u2"]

cacheFrame == <<userVars, messages, jobs, window, chatrooms, cacheService>>

InitCache ==
  /\ subscriptionStatus = [u \in Users |-> "active"]
  /\ subscriptionTier = [u \in Users |-> "basic"]
  /\ dailyMessageCount = [u \in Users |-> 0]
  /\ dailyUsage = [u \in Users |-> -1]
  /\ usageAtStart = dailyMessageCount
  /\ messages = <<>>
  /\ jobs = [j \in JobIds |-> NoJob]
  /\ reqs = [r \in ReqIds |-> NoCall]
  /\ faults = 0
  /\ window = NoWindow
  /\ chatrooms = InitChatrooms
  /\ cacheService \in CacheServices
  /\ cache = AllKeys(cacheService)

\* CacheService.<op>(c, u) is called
BeginInvalidate(r, op, c, u) ==
  /\ reqs[r].pc = "idle"
  /\ LET ps == PatternsOf(cacheService, op, c, u) IN
     reqs' = [reqs EXCEPT ![r] = [NoCall EXCEPT !.pc = "running", !.op = op,
                                               !.chatroomId = c, !.userId = u,
                                               !.patterns = ps, !.todo = 1..Len(ps)]]
  /\ UNCHANGED <<cache, faults, cacheFrame>>

\* the KEYS commands of a call reach redis in the order of the code. part_011
\* starts all its deleteByPattern calls at once (Promise.all), so all its KEYS
\* commands are sent before any DEL; gemini.service.ts awaits one clearPattern
\* after the other
MayReadKeys(call, i) ==
  /\ i \in call.todo
  /\ \A k \in call.todo : i <= k
  /\ cacheService = "gemini.service" => call.dels = {}

\* const keys = await redis.keys(pattern); an error is caught and logged and the
\* pattern is given up; no key found: no DEL
RedisKeys(r, i) ==
  /\ reqs[r].pc = "running"
  /\ MayReadKeys(reqs[r], i)
  /\ \E ok \in BOOLEAN :
       LET keys == KeysMatching(cache, reqs[r].patterns[i]) IN
       /\ Answers(ok)
       /\ reqs' = [reqs EXCEPT ![r].todo = @ \ {i},
                               ![r].dels = IF ok /\ keys # {} THEN @ \cup {keys} ELSE @,
                               ![r].failed = @ \/ ~ok]
  /\ UNCHANGED <<cache, cacheFrame>>

\* await redis.del(keys); an error is caught and logged
RedisDel(r, keys) ==
  /\ reqs[r].pc = "running"
  /\ keys \in reqs[r].dels
  /\ cacheService = "part_011" => reqs[r].todo = {}
  /\ \E ok \in BOOLEAN :
       /\ Answers(ok)
       /\ cache' = IF ok THEN cache \ keys ELSE cache
       /\ reqs' = [reqs EXCEPT ![r].dels = @ \ {keys}, ![r].failed = @ \/ ~ok]
  /\ UNCHANGED cacheFrame

\* a deleteByPattern whose catch block rethrows
RaisedIfFailed(failed) == failed

\* whether the invalidation throws to its caller: deleteByPattern and
\* clearPattern catch every error of their redis commands
Raised(failed) == FALSE

\* every pattern was handled: the invalidation returns
ReturnFromInvalidate(r) ==
  /\ reqs[r].pc = "running"
  /\ reqs[r].todo = {}
  /\ reqs[r].dels = {}
  /\ reqs' = [reqs EXCEPT ![r].pc = "returned", ![r].raised = Raised(reqs[r].failed)]
  /\ UNCHANGED <<cache, faults, cacheFrame>>

NextCache ==
  \/ \E r \in ReqIds, op \in CacheOps, c \in CacheRooms :
       BeginInvalidate(r, op, c, cacheOwner[c])
  \/ \E r \in ReqIds : \E i \in reqs[r].todo : RedisKeys(r, i)
  \/ \E r \in ReqIds : \E keys \in reqs[r].dels : RedisDel(r, keys)
  \/ \E r \in ReqIds : ReturnFromInvalidate(r)

SpecCache == InitCache /\ [][NextCache]_vars

Calls == {r \in ReqIds : reqs[r].pc # "idle"}

Returned == {r \in ReqIds : reqs[r].pc = "returned"}

SameCall(r, q) ==
  /\ reqs[r].op = reqs[q].op
  /\ reqs[r].chatroomId = reqs[q].chatroomId
  /\ reqs[r].userId = reqs[q].userId

\* the cache after one call of reqs[r]'s invalidation on the full cache
OnceFrom(r) == AfterPatterns(AllKeys(cacheService), reqs[r].patterns)

\* C27: an invalidation never throws to its caller; it only removes keys, and
\* only keys its own patterns match; once a call has returned with no redis
\* error none of the keys its patterns match is left; so when the same call is
\* made twice, one after the other or interleaved, the cache ends as after one
\* call; and no step of an invalidation changes anything but the cache.
C27_InvalidationIdempotent ==
  /\ [](\A r \in ReqIds : ~reqs[r].raised)
  /\ [](\A r \in Returned : ~reqs[r].failed =>
          \A i \in 1..Len(reqs[r].patterns) : KeysMatching(cache, reqs[r].patterns[i]) = {})
  /\ [](\A k \in AllKeys(cacheService) \ cache :
          \E r \in Calls : \E i \in 1..Len(reqs[r].patterns) : GlobMatch(reqs[r].patterns[i], k))
  /\ [](cache \subseteq AllKeys(cacheService))
  /\ [](\A r \in Returned :
          (~reqs[r].failed /\ \A q \in Calls : SameCall(r, q)) => cache = OnceFrom(r))
  /\ [][cache' \subseteq cache /\ UNCHANGED <<messages, jobs, chatrooms, userVars>>]_vars

\* the same invalidation was called twice, both calls have returned and at least
\* one met a redis error, and the cache is as after a single call
C27_Witness ==
  \E r, q \in Returned :
    /\ r # q
    /\ SameCall(r, q)
    /\ reqs[q].failed /\ ~reqs[r].failed
    /\ reqs[r].op = "invalidateChatroomCache"
    /\ cache = OnceFrom(r)
    /\ cache # AllKeys(cacheService)

\* the keys of the views derived from chatroom c and from its owner u
DerivedKeys(c, u) ==
  {CacheKey(cacheService, v) : v \in {w \in Views : w.id \in {c, u}}}

\* C25: after invalidateChatroomCache(c, u) has returned with no cache error,
\* no key of a view of chatroom c (detail pages, message stats) or of its owner
\* u (list pages, search pages, stats) is in the cache, and, when no other
\* invalidation was called, every other key still is.
C25_ChatroomInvalidationComplete ==
  \A r \in Returned :
    (reqs[r].op = "invalidateChatroomCache" /\ ~reqs[r].failed)
      => /\ cache \cap DerivedKeys(reqs[r].chatroomId, reqs[r].userId) = {}
         /\ Calls = {r} =>
              cache = AllKeys(cacheService) \ DerivedKeys(reqs[r].chatroomId, reqs[r].userId)

\* the keys of the views that show the messages or message counts of chatroom
\* c: its detail pages and message stats, its owner's list pages and stats
MessageViewKeys(c, u) ==
  {CacheKey(cacheService, v) :
     v \in {w \in Views : \/ w.kind \in {"detail", "messageStats"} /\ w.id = c
                          \/ w.kind \in {"list", "stats"} /\ w.id = u}}

\* C26: once createMessage has stored a message and its invalidateMessageCache
\* call has returned, no view that shows the chatroom's messages or message
\* counts is cached.
C26_NoStaleViewAfterMessage ==
  \A r \in ReqIds :
    reqs[r].pc \in {"done", "responded"}
      => cache \cap MessageViewKeys(reqs[r].chatroomId, reqs[r].userId) = {}

(* ------------------- one reply per job across attempts ---------------- *)
\* C37: no worker crashes, and at most one AI reply is persisted per job over
\* all of its attempts: a failure that follows the persisted reply in an attempt
\* (timestamp update, invalidation, progress update) never makes a retry
\* persist a second one.
C37_OneReplyPerJob ==
  \A j \in JobIds : Cardinality(AiMessagesOf(j)) <= 1

(* --------------- two jobs of one chatroom, run concurrently ----------- *)
\* C40: when two jobs of the same chatroom are processed at the same time, each
\* save that persists a reply adds a row of its own and leaves every row written
\* before it as it was, so both replies are stored as separate messages in
\* whatever order the two attempts reach their save.
C40_ConcurrentRepliesBothPersisted ==
  /\ [][\A j \in JobIds :
          (\E outcome \in SaveOutcomes : SaveGeminiResponse(j, outcome))
          => /\ \A i \in 1..Len(messages) : messages'[i] = messages[i]
             /\ jobs'[j].savedId # FailedSave
                  => /\ Len(messages') = Len(messages) + 1
                     /\ jobs'[j].savedId = Len(messages')
                     /\ messages'[Len(messages')].sender = "ai"
                     /\ messages'[Len(messages')].job = j
                     /\ messages'[Len(messages')].chatroomId = jobs[j].chatRoomId]_vars
  /\ [](\A j, k \in JobIds :
          (/\ j # k
           /\ jobs[j].state = "active" /\ jobs[j].savedId > 0
           /\ jobs[k].state = "active" /\ jobs[k].savedId > 0
           /\ jobs[j].chatRoomId = jobs[k].chatRoomId)
          => /\ jobs[j].savedId # jobs[k].savedId
             /\ messages[jobs[j].savedId].job = j
             /\ messages[jobs[k].savedId].job = k)

\* both jobs of chatroom c1 are in processing and each has persisted its reply
C40_Witness ==
  \E j, k \in JobIds :
    /\ j # k
    /\ jobs[j].chatRoomId = jobs[k].chatRoomId
    /\ jobs[j].state = "active" /\ jobs[j].pc = "progress100" /\ jobs[j].savedId > 0
    /\ jobs[k].state = "active" /\ jobs[k].pc = "progress100" /\ jobs[k].savedId > 0
    /\ messages[jobs[j].savedId].job = j
    /\ messages[jobs[k].savedId].job = k

(* ---------------- the context window of jobs of every route ----------- *)
\* C35: whichever route submitted the job, the context window an attempt reads
\* is the window of the job's own chatroom, so a job whose chatroom holds
\* messages is never sent to the generation service with an empty history.
C35_WindowFromJobChatroom ==
  [][\A j \in JobIds :
       (FetchHistory(j) /\ ~jobs'[j].histFailed)
       => /\ jobs'[j].history = ConversationHistory(messages, jobs[j].chatRoomId)
          /\ (\E i \in 1..Len(messages) : messages[i].chatroomId = jobs[j].chatRoomId)
               => jobs'[j].history # <<>>]_vars

(* --------------- the triggering message in the request ---------------- *)
\* C36: in the request an attempt sends to the generation service the message
\* that triggered the job is the new user turn only: the history window sent
\* with it does not contain that message, although it was stored in the
\* chatroom before the job ran.
C36_TriggerOnlyAsNewTurn ==
  [][\A j \in JobIds :
       (GenerateResponse(j) /\ jobs[j].messageId # 0)
       => \A i \in 1..Len(jobs[j].history) : jobs[j].history[i].msg # jobs[j].messageId]_vars

(* ------------------- what the queue keeps of a failure ---------------- *)
\* the message of the error processGeminiJob throws, which BullMQ stores as the
\* job's failedReason: callGeminiAPI replaces every error of the generation
\* service by Error('Failed to call Gemini API'); an error of a progress update
\* is rethrown as it is
ErrorMessage(kind) ==
  IF kind \in {"transient", "rejected", "quota"} THEN "Failed to call Gemini API"
  ELSE "queue store error"

\* what the queue holds of a job after an attempt that threw
FailedJobView(job, kind) ==
  LET t == RetryOrFail(job, kind) IN
  [state |-> t.state, attemptsMade |-> t.attemptsMade, delay |-> t.delay,
   failedReason |-> ErrorMessage(kind)]

\* C32: an attempt that fails with QuotaExceeded is retried with backoff while
\* attempts are left, and the job failed by the last such attempt is held by the
\* queue in a state that differs from the one a Transient failure would have
\* left it in.
C32_QuotaFailedDistinctly ==
  [][\A j \in JobIds :
       GenerateOutcome(j, "quota")
       => /\ jobs[j].attemptsMade + 1 < attempts
               => /\ jobs'[j].state = "delayed"
                  /\ jobs'[j].delay = backoffDelay * Pow2(jobs[j].attemptsMade)
          /\ jobs[j].attemptsMade + 1 >= attempts
               => /\ jobs'[j].state = "failed"
                  /\ FailedJobView(jobs[j], "quota") # FailedJobView(jobs[j], "transient")]_vars

(* ------------------------------ SpecPool ------------------------------ *)
\* The Worker of the reply queue with more jobs waiting than it has slots.
\* jobs: the queue, over PoolJobIds; reqs[j]: the number of processGeminiJob
\* calls of the Worker that are running for job j.
PoolJobIds == 1..MaxPoolJobs

\* a chatRoomId of a request body that names no chatroom
UnknownRoom == "c0"

poolFrame == <<userVars, messages, window, chatrooms, cache, cacheService>>

\* the state of Init after MaxPoolJobs calls of QueueController.enqueueTestMessage
InitPool ==
  /\ subscriptionStatus = [u \in Users |-> "active"]
  /\ subscriptionTier = [u \in Users |-> "basic"]
  /\ dailyMessageCount = [u \in Users |-> 0]
  /\ dailyUsage = [u \in Users |-> -1]
  /\ usageAtStart = dailyMessageCount
  /\ messages = <<>>
  /\ jobs = [j \in PoolJobIds |-> EnqueueGeminiMessage(0, UnknownRoom, "u1", None, "test")]
  /\ reqs = [j \in PoolJobIds |-> 0]
  /\ faults = 0
  /\ window = NoWindow
  /\ chatrooms = InitChatrooms
  /\ cacheService = WorkerCacheService
  /\ cache = AllKeys(cacheService)

RECURSIVE SumTo(_, _)
SumTo(f, n) == IF n = 0 THEN 0 ELSE f[n] + SumTo(f, n - 1)

\* the processGeminiJob calls the Worker is running
Processing == SumTo(reqs, MaxPoolJobs)

\* a fetch that hands the job over and leaves it in the wait list
MoveToActiveKeepsWaiting(job) == job

\* the queue's fetch: the job leaves the wait list and enters the active set in
\* one step of the store
MoveToActive(job) == [job EXCEPT !.state = "active"]

\* new Worker(name, processGeminiJob, { concurrency: 10 }): while fewer than
\* `concurrency` calls are running and a job waits, the Worker fetches it and
\* calls processGeminiJob for it. Jobs of one priority leave the wait list in
\* the order of their ids.
FetchNextJob(j) ==
  /\ Processing < concurrency
  /\ jobs[j].state = "waiting"
  /\ \A k \in PoolJobIds : jobs[k].state = "waiting" => j <= k
  /\ jobs' = [jobs EXCEPT ![j] = MoveToActive(jobs[j])]
  /\ reqs' = [reqs EXCEPT ![j] = @ + 1]
  /\ UNCHANGED <<faults, poolFrame>>

\* processGeminiJob(job) from its first line to its return or throw, for a job
\* of a chatroom that does not exist: empty history, generation, a save whose
\* findFirst finds nothing (caught, id 'failed-save'), result returned; any of
\* the awaited calls can throw, which the queue answers by RetryOrFail
ProcessGeminiJob(j) ==
  /\ reqs[j] > 0
  /\ \E ok \in BOOLEAN :
       LET job == jobs[j] IN
       /\ ok \/ faults < MaxPoolFaults
       /\ faults' = IF ok THEN faults ELSE faults + 1
       /\ jobs' = [jobs EXCEPT ![j] =
                     IF ok THEN [SaveCaught([job EXCEPT !.content = ReplyOf(j, job)])
                                   EXCEPT !.state = "completed", !.pc = "idle"]
                     ELSE RetryOrFail(job, "transient")]
  /\ reqs' = [reqs EXCEPT ![j] = @ - 1]
  /\ UNCHANGED poolFrame

PromoteDelayedInPool(j) ==
  /\ jobs[j].state = "delayed"
  /\ jobs' = [jobs EXCEPT ![j] = [@ EXCEPT !.state = "waiting", !.delay = 0]]
  /\ UNCHANGED <<reqs, faults, poolFrame>>

NextPool ==
  \/ \E j \in PoolJobIds : FetchNextJob(j)
  \/ \E j \in PoolJobIds : ProcessGeminiJob(j)
  \/ \E j \in PoolJobIds : PromoteDelayedInPool(j)

SpecPool == InitPool /\ [][NextPool]_vars

PoolActive == {j \in PoolJobIds : jobs[j].state = "active"}

Chars == {"bt", "h", "t", "p", "-", "*", " "}

Texts == UNION {[1..n -> Chars] : n \in 0..MaxTextLen}

\* String.prototype.includes(needle)
Includes(text, needle) ==
  \E i \in 1..(Len(text) - Len(needle) + 1) :
    SubSeq(text, i, i + Len(needle) - 1) = needle

RECURSIVE CountOf(_, _)
\* the number of occurrences of character ch in text
CountOf(text, ch) ==
  IF text = <<>> THEN 0
  ELSE (IF Head(text) = ch THEN 1 ELSE 0) + CountOf(Tail(text), ch)

\* a list test that knows one bullet only
HasListDashOnly(content) == Includes(content, <<"-", " ">>)

\* response.content.includes('- ') || response.content.includes('* ')
HasList(content) == Includes(content, <<"-", " ">>) \/ Includes(content, <<"*", " ">>)

\* GeminiWorker.processGeminiResponse(response, context)
ProcessGeminiResponse(response) ==
  [content |-> response.content,
   wordCount |-> CountOf(response.content, " ") + 1,
   characterCount |-> Len(response.content),
   formatting |-> [hasCodeBlocks |-> Includes(response.content, <<"bt", "bt", "bt">>),
                   hasLinks |-> Includes(response.content, <<"h", "t", "t", "p">>),
                   hasList |-> HasList(response.content)]]

formatFrame == <<userVars, messages, reqs, faults, window, chatrooms, cache, cacheService>>

\* job 1 is active and the generation service has just answered with some text
InitFormat ==
  /\ subscriptionStatus = [u \in Users |-> "active"]
  /\ subscriptionTier = [u \in Users |-> "basic"]
  /\ dailyMessageCount = [u \in Users |-> 0]
  /\ dailyUsage = [u \in Users |-> -1]
  /\ usageAtStart = dailyMessageCount
  /\ messages = <<>>
  /\ \E text \in Texts :
       jobs = [j \in {1} |-> [state |-> "active", pc |-> "process",
                              response |-> [content |-> text], processed |-> None]]
  /\ reqs = [r \in ReqIds |-> NoReq]
  /\ faults = 0
  /\ window = NoWindow
  /\ chatrooms = InitChatrooms
  /\ cacheService = WorkerCacheService
  /\ cache = AllKeys(cacheService)

\* processGeminiJob, step 2: processGeminiResponse(geminiResponse, context)
ProcessResponse(j) ==
  /\ jobs[j].pc = "process"
  /\ jobs' = [jobs EXCEPT ![j] =
                [jobs[j] EXCEPT !.processed = ProcessGeminiResponse(jobs[j].response),
                                !.pc = "save"]]
  /\ UNCHANGED formatFrame

NextFormat == \E j \in {1} : ProcessResponse(j)

SpecFormat == InitFormat /\ [][NextFormat]_vars

\* C33: for every generated text the flags of the processed response are:
\* hasCodeBlocks exactly when the text has three backticks in a row, hasLinks
\* exactly when it has the characters h, t, t, p in a row, hasList exactly when
\* it has a dash or an asterisk followed by a blank; the content is the text.
C33_FormattingFlags ==
  jobs[1].pc = "save"
  => LET text == jobs[1].response.content
         out == jobs[1].processed
         At(i, ch) == i <= Len(text) /\ text[i] = ch
     IN  /\ out.content = text
         /\ out.formatting.hasCodeBlocks
              <=> \E i \in 1..Len(text) : At(i, "bt") /\ At(i + 1, "bt") /\ At(i + 2, "bt")
         /\ out.formatting.hasLinks
              <=> \E i \in 1..Len(text) :
                    At(i, "h") /\ At(i + 1, "t") /\ At(i + 2, "t") /\ At(i + 3, "p")
         /\ out.formatting.hasList
              <=> \E i \in 1..Len(text) :
                    (At(i, "-") \/ At(i, "*")) /\ At(i + 1, " ")

\* a processed text that is a list by its asterisk bullet only and also holds
\* a code fence
C33_Witness ==
  /\ jobs[1].pc = "save"
  /\ jobs[1].processed.formatting.hasList
  /\ jobs[1].processed.formatting.hasCodeBlocks
  /\ ~jobs[1].processed.formatting.hasLinks
  /\ ~Includes(jobs[1].response.content, <<"-", " ">>)

(* ----------------- the gating count under concurrency ----------------- *)
\* C38: within a day user.dailyMessageCount never decreases, and whenever no
\* trackMessageUsage call is in flight it equals the messageCount of the user's
\* usage row of today (0 when there is no row), under every interleaving of
\* concurrent calls for the same user.
C38_GatingCountMonotoneAndInSync ==
  /\ [][\A u \in Users : dailyMessageCount'[u] >= dailyMessageCount[u]]_vars
  /\ [](TrackQuiescent
          => \A u \in Users :
               dailyMessageCount[u] = IF dailyUsage[u] = -1 THEN 0 ELSE dailyUsage[u])

(* ----------------------------- SpecReset ------------------------------ *)
\* SubscriptionService.resetDailyUsage: user.updateMany({dailyMessageCount: 0});
\* the DailyUsage rows are not touched. The method is public and nothing in the
\* repository says when it runs.
ResetDailyUsage ==
  /\ dailyMessageCount' = [u \in Users |-> 0]
  /\ UNCHANGED <<subscriptionStatus, subscriptionTier, dailyUsage, usageAtStart,
                 messages, jobs, reqs, faults, window, chatrooms, cache, cacheService>>

NextWithReset ==
  \/ \E u \in Users, c \in Chatrooms : SendOnDay(u, c)
  \/ NextDay
  \/ ResetDailyUsage

SpecReset == InitSend /\ [][NextWithReset]_vars

\* C39: after resetDailyUsage every active user has the whole daily limit of
\* the tier again: a user whose gating count is 0 is allowed to send, and the
\* first message sent with a gating count of 0 brings the count to 1, whatever
\* had been counted before the reset.
C39_ResetRestoresFullLimit ==
  [][\A u \in Users, c \in Chatrooms :
       (dailyMessageCount[u] = 0 /\ subscriptionStatus[u] = "active")
       => /\ ENABLED SendOnDay(u, c) \/ Cardinality(UserMessages) >= MaxSends
          /\ SendOnDay(u, c) => dailyMessageCount'[u] = 1]_vars

(* ------------------------------ SpecFill ------------------------------ *)
\* Read-through fills of the views of one chatroom against the save of an AI
\* reply. Here cache maps each key redis holds to the value stored under it,
\* the number of messages of the chatroom the cached result was computed from
\* (totalMessages of getMessageStats, messageCount of getChatroomById);
\* reqs are the calls of the two read methods.
FillRoom == "c1"

FillViews == {v \in ChatroomViews : v.id = FillRoom}

\* a call of getMessageStats or getChatroomById: the view it serves, the await
\* it is suspended at and the result it holds
NoRead == [pc |-> "idle", view |-> None, result |-> -1]

\* db.message.count({ where: { chatroomId } }) and _count.messages
MessageCount(table, c) == Cardinality({i \in 1..Len(table) : table[i].chatroomId = c})

fillFrame == <<userVars, window, cacheService>>

\* chatroom c1 holds the user's message, the job that answers it has its reply
\* and is about to save it; the views are cached, computed from the table as it
\* is, or nothing is cached
InitFill ==
  /\ subscriptionStatus = [u \in Users |-> "active"]
  /\ subscriptionTier = [u \in Users |-> "basic"]
  /\ dailyMessageCount = [u \in Users |-> 1]
  /\ dailyUsage = [u \in Users |-> 1]
  /\ usageAtStart = dailyMessageCount
  /\ messages = <<NewMessage(<<>>, FillRoom, "user", 0)>>
  /\ jobs = [j \in JobIds |->
               IF j = 1
               THEN [EnqueueGeminiMessage(1, FillRoom, "u1", FillRoom, "sendMessageToChatroom")
                       EXCEPT !.state = "active", !.pc = "save", !.content = 11]
               ELSE NoJob]
  /\ reqs = [r \in ReqIds |-> NoRead]
  /\ faults = 0
  /\ window = NoWindow
  /\ chatrooms = InitChatrooms
  /\ cacheService = WorkerCacheService
  /\ \E held \in {{}, FillViews} :
       cache = [k \in {CacheKey(cacheService, v) : v \in held} |-> 1]

\* 'Check cache first': CacheService.getCached...(chatroomId); a hit is returned
GetCached(r, v) ==
  /\ reqs[r].pc = "idle"
  /\ LET key == CacheKey(cacheService, v) IN
     reqs' = [reqs EXCEPT ![r] =
                IF key \in DOMAIN cache
                THEN [pc |-> "done", view |-> v, result |-> cache[key]]
                ELSE [pc |-> "db", view |-> v, result |-> -1]]
  /\ UNCHANGED <<messages, jobs, faults, chatrooms, cache, fillFrame>>

\* the store reads of the miss path: the ownership check and the counts
ReadDatabase(r) ==
  /\ reqs[r].pc = "db"
  /\ reqs' = [reqs EXCEPT ![r].pc = "set",
                          ![r].result = MessageCount(messages, reqs[r].view.id)]
  /\ UNCHANGED <<messages, jobs, faults, chatrooms, cache, fillFrame>>

\* CacheService.set(key, data, ttl): redis.setEx
SetCachedValue(held, key, result) ==
  [k \in DOMAIN held \cup {key} |-> IF k = key THEN result ELSE held[k]]

\* 'Cache the result': CacheService.setCached...(chatroomId, result); return it
SetCached(r) ==
  /\ reqs[r].pc = "set"
  /\ cache' = SetCachedValue(cache, CacheKey(cacheService, reqs[r].view), reqs[r].result)
  /\ reqs' = [reqs EXCEPT ![r].pc = "done"]
  /\ UNCHANGED <<messages, jobs, faults, chatrooms, fillFrame>>

\* the entry's TTL (600 s for both views) has run out
ExpireKey(key) ==
  /\ key \in DOMAIN cache
  /\ cache' = [k \in DOMAIN cache \ {key} |-> cache[k]]
  /\ UNCHANGED <<messages, jobs, reqs, faults, chatrooms, fillFrame>>

\* saveGeminiResponse, fourth await: invalidateMessageCache deletes the keys its
\* patterns match; a redis error is caught inside; savedMessage is returned
InvalidateAfterSave(j) ==
  /\ jobs[j].state = "active"
  /\ jobs[j].pc = "save.invalidate"
  /\ \E ok \in BOOLEAN :
       /\ Answers(ok)
       /\ cache' = IF ok
                   THEN [k \in InvalidateMessageCache(DOMAIN cache, cacheService,
                                                      jobs[j].chatRoomId, jobs[j].userId)
                           |-> cache[k]]
                   ELSE cache
       /\ jobs' = [jobs EXCEPT ![j] =
                     IF ok THEN SavedMessage(jobs[j], jobs[j].savedId)
                     ELSE DeleteByPatternCaught(jobs[j], jobs[j].savedId)]
  /\ UNCHANGED <<messages, reqs, chatrooms, fillFrame>>

NextFill ==
  \/ \E r \in ReqIds, v \in FillViews : GetCached(r, v)
  \/ \E r \in ReqIds : ReadDatabase(r)
  \/ \E r \in ReqIds : SetCached(r)
  \/ \E v \in FillViews : ExpireKey(CacheKey(cacheService, v))
  \/ \E j \in JobIds : SaveFind(j)
  \/ \E j \in JobIds : SaveCreate(j)
  \/ \E j \in JobIds : SaveUpdate(j)
  \/ \E j \in JobIds : InvalidateAfterSave(j)

SpecFill == InitFill /\ [][NextFill]_vars

\* C34: once the save has persisted the reply and its invalidation has returned
\* (no store or redis call having failed) and no read call is in flight, every
\* entry cached for a view of the chatroom was computed from a table that holds
\* the reply.
C34_NoStaleFill ==
  (/\ \E j \in JobIds : jobs[j].pc = "progress100" /\ jobs[j].savedId > 0
   /\ faults = 0
   /\ \A r \in ReqIds : reqs[r].pc \in {"idle", "done"})
  => \A k \in DOMAIN cache : cache[k] = MessageCount(messages, FillRoom)

====
